---------------------------- MODULE Spec2Model ----------------------------
(***************************************************************************)
(* A model of fediverse-radar: the identifier codec and exclusion filter   *)
(* of mastoToBsky.js, its queued Mastodon->Bluesky run, the network-A      *)
(* batch loop of the Bluesky->Mastodon run, the coverage summary and the   *)
(* unbridged list, the follow-set resolvers, the file AccountHandles.csv,  *)
(* the config-driven runs of the CLI, the -c filter, the HTML report and   *)
(* the readers of the exported follow records.                             *)
(*                                                                         *)
(* A JavaScript string is modelled as a sequence of one-character strings, *)
(* so that replace, split, endsWith, toLowerCase and the regular           *)
(* expressions of the source are computed character by character.          *)
(***************************************************************************)
EXTENDS Integers, Sequences, FiniteSets, TLC

VARIABLES
    \* ---- identifier codec and exclusion filter (mastoToBsky.js 14-23)
    codecPc, address, newAddress, excluded,
    \* ---- Mastodon->Bluesky run (mastoToBsky.js main, 147-317)
    m2bPc,              \* where main stands
    rowsRead,           \* the 'Account address' of every row read so far
    readError,          \* the CSV stream has emitted 'error'
    requestQueue,       \* const requestQueue = []
    requestsInProgress, \* let requestsInProgress = 0
    request,            \* the queued closure being awaited
    result,             \* what checkAccountExists returned to it
    results,            \* const results = []
    probed,             \* every probe made: source row and the answers
    followCheck,        \* -f was given: followedHandles is not null
    followedDids,       \* the Set of followed DIDs
    filterIndex,        \* position of the already-followed filter loop
    filteredResults,    \* const filteredResults = []
    outputCsv,          \* rows written to output.csv
    outputHtml,         \* rows written to output.html
    \* ---- network-A batch loop (Bluesky->Mastodon main, check loop)
    batchPc,               \* where main stands
    filteredHandles,       \* const filteredHandles
    batchI,                \* the loop variable i
    checkCount,            \* let checkCount = 0
    instanceIndex,         \* let instanceIndex = 0
    mastodonInstanceInput, \* the CHECK instance
    outputInstance,        \* the WRITE instance
    accountHandlesCsv,     \* the rows appended to AccountHandles.csv
    probeLog,              \* every probe issued: index, instance, answer
    rateLimitedSeen,       \* how many 429 answers the instance has given
    instanceAnswers,       \* what the CHECK instance can answer in this run
    \* ---- coverage summary (showBridgedPercentage)
    covPc,            \* "input" before the call, "reported" after it
    bskyHandlesFile,  \* the lines of BlueSkyHandles.txt
    csvRows,          \* the rows appended to AccountHandles.csv
    mastoCsvGiven,    \* mastoCsvPath is not null
    mastoCsvRecords,  \* the 'Account address' of each record of that CSV
    bridgedCount,     \* const bridgedCount
    total,            \* const total
    percent,          \* const percent, the string toFixed(2) gives
    unbridgedHandles, \* const unbridgedHandles
    unbridgedCsv,     \* the file UnbridgedAccounts.csv
    \* ---- follow-list fetchers and the bridge check loop
    resPc,              \* where the fetcher or main stands
    fromMain,           \* main made the call (else the function alone)
    fetchFn,            \* the fetcher that is running or ran last
    maxEntries,         \* its maxEntries argument, 0 for null
    cursor,             \* its cursor is set
    fetchHandles,       \* its local array handles, as pushed
    totalFetched,       \* its totalFetched
    apiLeft,            \* entries the API has yet to return to it
    apiLog,             \* the answers the API gave to it, in order
    handles,            \* main: const handles, or the array returned
    bridgeFollowingSet, \* main: const bridgeFollowingSet
    bridgeI,            \* main: the loop variable i
    bridgeCsv,          \* the rows appended to AccountHandles.csv
    \* ---- the file AccountHandles.csv over a Bluesky->Mastodon run
    filePc,             \* where main stands
    fileVersion,        \* which main runs: "appendToCSV" or "csvWriter"
    csvPathGiven,       \* -c was given
    fileBefore,         \* the lines the file held before the run
    accountHandlesFile, \* the lines of the file
    fileHandles,        \* the handles the run checks
    fileI,              \* the loop variable i
    mastodonHandles,    \* csvWriter main: const mastodonHandles = []
    fileRows,           \* the lines of the rows this run produced
    \* ---- config-driven runs of the CLI (-f1, -f2)
    cliPc,              \* where the CLI or the script it calls stands
    cliFlag,            \* "-f1" or "-f2"
    configFound,        \* a config path follows the flag and exists
    config,             \* what parseConfigFile returns, "" for no value
    filePathReadable,   \* the file FILE_PATH names can be read
    cliArgs,            \* let args, as passed to the script
    envCheckInstance,   \* process.env.BSKY_CHECK_INSTANCE
    envWriteInstance,   \* process.env.BSKY_WRITE_INSTANCE
    exitCode,           \* the exit status, -1 while the process runs
    prompts,            \* the prompts issued so far
    networkStarted,     \* a network request was made
    exportStarted,      \* the atproto-export run was started
    linkInstance,       \* the instance of the output links, "" before
    \* ---- the -c filter ahead of the network-A batch loop
    followHandles,      \* main: let handles, the follows to check
    csvPath,            \* -c <path> was given
    existingCsv,        \* the 'Account address' of each record of that CSV
    existingHandles,    \* main: let existingHandles
    \* ---- the HTML report of a Bluesky->Mastodon run (writeResultsToHtml)
    repPc,                  \* where writeResultsToHtml stands
    repVersion,             \* which writeResultsToHtml runs
    repCsvLines,            \* the lines of AccountHandles.csv
    existingCsvPath,        \* existingCsvPath is given and the file exists
    existingReadable,       \* that file can be read and parsed
    existingRecords,        \* the 'Account address' of each of its records
    repFollowedHandles,     \* let alreadyFollowedHandles = new Set()
    alreadyFollowedRows,    \* let alreadyFollowedRows = []
    repRows,                \* let rows
    repI,                   \* position of for (let row of rows)
    htmlRows,               \* the table rows written to output.html
    counts,                 \* the counts written to output.html
    \* ---- reading the directory of exported follow records
    dirPc,              \* where the reader stands
    dirFn,              \* "getFollowedDids" or "extractHandles"
    dirFiles,           \* the files of the directory, as readdirSync lists
    dirI,               \* position of the loop over the files
    dirOut              \* the DIDs added to the Set, or the handles pushed

codecVars == <<codecPc, address, newAddress, excluded>>

m2bVars ==
    <<m2bPc, rowsRead, readError, requestQueue, requestsInProgress, request,
      result, results, probed, followCheck, followedDids, filterIndex,
      filteredResults, outputCsv, outputHtml>>

batchVars ==
    <<batchPc, filteredHandles, batchI, checkCount, instanceIndex,
      mastodonInstanceInput, outputInstance, accountHandlesCsv, probeLog,
      rateLimitedSeen, instanceAnswers>>

covVars ==
    <<covPc, bskyHandlesFile, csvRows, mastoCsvGiven, mastoCsvRecords,
      bridgedCount, total, percent, unbridgedHandles, unbridgedCsv>>

resVars ==
    <<resPc, fromMain, fetchFn, maxEntries, cursor, fetchHandles,
      totalFetched, apiLeft, apiLog, handles, bridgeFollowingSet, bridgeI,
      bridgeCsv>>

fileVars ==
    <<filePc, fileVersion, csvPathGiven, fileBefore, accountHandlesFile,
      fileHandles, fileI, mastodonHandles, fileRows>>

cliVars ==
    <<cliPc, cliFlag, configFound, config, filePathReadable, cliArgs,
      envCheckInstance, envWriteInstance, exitCode, prompts, networkStarted,
      exportStarted, linkInstance>>

filterVars == <<followHandles, csvPath, existingCsv, existingHandles>>

repVars ==
    <<repPc, repVersion, repCsvLines, existingCsvPath, existingReadable,
      existingRecords, repFollowedHandles, alreadyFollowedRows, repRows,
      repI, htmlRows, counts>>

dirVars == <<dirPc, dirFn, dirFiles, dirI, dirOut>>

vars ==
    <<codecVars, m2bVars, batchVars, covVars, resVars, fileVars, cliVars,
      filterVars, repVars, dirVars>>

\* What each component leaves alone: the variables of the others.
notCodec ==
    <<m2bVars, batchVars, covVars, resVars, fileVars, cliVars,
      filterVars, repVars, dirVars>>
notM2b ==
    <<codecVars, batchVars, covVars, resVars, fileVars, cliVars,
      filterVars, repVars, dirVars>>
notBatch ==
    <<codecVars, m2bVars, covVars, resVars, fileVars, cliVars,
      filterVars, repVars, dirVars>>
notCov ==
    <<codecVars, m2bVars, batchVars, resVars, fileVars, cliVars,
      filterVars, repVars, dirVars>>
notRes ==
    <<codecVars, m2bVars, batchVars, covVars, fileVars, cliVars,
      filterVars, repVars, dirVars>>
notFile ==
    <<codecVars, m2bVars, batchVars, covVars, resVars, cliVars,
      filterVars, repVars, dirVars>>
notCli ==
    <<codecVars, m2bVars, batchVars, covVars, resVars, fileVars,
      filterVars, repVars, dirVars>>
notFilter ==
    <<codecVars, m2bVars, covVars, resVars, fileVars, cliVars, repVars, dirVars>>
notRep ==
    <<codecVars, m2bVars, batchVars, covVars, resVars, fileVars, cliVars,
      filterVars, dirVars>>
notDir ==
    <<codecVars, m2bVars, batchVars, covVars, resVars, fileVars, cliVars,
      filterVars, repVars>>

(***************************************************************************)
(* Strings                                                                 *)
(***************************************************************************)

\* The value JavaScript prints for a missing array element in a template.
Undefined == <<"u","n","d","e","f","i","n","e","d">>

\* String.prototype.endsWith
EndsWith(s, suffix) ==
    /\ Len(s) >= Len(suffix)
    /\ SubSeq(s, Len(s) - Len(suffix) + 1, Len(s)) = suffix

\* String.prototype.replace with a global single-character class: every
\* character of chars becomes by.
ReplaceAll(s, chars, by) ==
    [i \in 1..Len(s) |-> IF s[i] \in chars THEN by ELSE s[i]]

\* Index of the first occurrence of character c in s, 0 when there is none.
IndexOf(s, c) ==
    IF \E i \in 1..Len(s) : s[i] = c
    THEN CHOOSE i \in 1..Len(s) : s[i] = c /\ \A j \in 1..(i - 1) : s[j] # c
    ELSE 0

\* String.prototype.replace(c, '') with a string pattern: only the first
\* occurrence is removed.
RemoveFirst(s, c) ==
    LET k == IndexOf(s, c)
    IN IF k = 0 THEN s ELSE SubSeq(s, 1, k - 1) \o SubSeq(s, k + 1, Len(s))

UpperCase ==
    <<"A","B","C","D","E","F","G","H","I","J","K","L","M",
      "N","O","P","Q","R","S","T","U","V","W","X","Y","Z">>

LowerCase ==
    <<"a","b","c","d","e","f","g","h","i","j","k","l","m",
      "n","o","p","q","r","s","t","u","v","w","x","y","z">>

\* String.prototype.toLowerCase
ToLowerCase(s) ==
    [i \in 1..Len(s) |->
        IF \E k \in 1..26 : UpperCase[k] = s[i]
        THEN LowerCase[CHOOSE k \in 1..26 : UpperCase[k] = s[i]]
        ELSE s[i]]

\* The decimal digits of a natural number.
RECURSIVE Digits(_)
Digits(n) ==
    LET d == <<"0","1","2","3","4","5","6","7","8","9">>[(n % 10) + 1]
    IN IF n < 10 THEN <<d>> ELSE Digits(n \div 10) \o <<d>>

\* Number.prototype.toFixed(2) of the quotient num / den >= 0: the nearest
\* number of hundredths, the larger one on a tie, printed with two decimals.
\* The quotient is taken exactly; the double the source computes rounds the
\* same way unless the exact quotient is a tie.
ToFixed2(num, den) ==
    LET hundredths == (200 * num + den) \div (2 * den)
    IN Digits(hundredths \div 100) \o <<".">>
           \o Digits((hundredths % 100) \div 10) \o Digits(hundredths % 10)

\* String.prototype.trim, for the blank the model knows
RECURSIVE Trim(_)
Trim(s) ==
    IF s = <<>> THEN s
    ELSE IF Head(s) = " " THEN Trim(Tail(s))
    ELSE IF s[Len(s)] = " " THEN Trim(SubSeq(s, 1, Len(s) - 1))
    ELSE s

\* String.prototype.split on a single character: the sequence of the parts.
RECURSIVE Split(_, _)
Split(s, c) ==
    LET k == IndexOf(s, c)
    IN IF k = 0 THEN <<s>>
       ELSE <<SubSeq(s, 1, k - 1)>> \o Split(SubSeq(s, k + 1, Len(s)), c)

(***************************************************************************)
(* Identifier codec and exclusion filter                                   *)
(***************************************************************************)

ApBridGy == <<".","a","p",".","b","r","i","d",".","g","y">>
AtBskyBridGy == <<"@","b","s","k","y",".","b","r","i","d",".","g","y">>
AtThreadsNet == <<"@","t","h","r","e","a","d","s",".","n","e","t">>
AtBirdMakeup == <<"@","b","i","r","d",".","m","a","k","e","u","p">>

\* A mutation of convertAddressFormat: the replace loses its g flag, so only
\* the first '_' or '~' becomes '-'.
convertAddressFormat_FirstOnly(addr) ==
    LET hits == {i \in 1..Len(addr) : addr[i] \in {"_", "~"}}
        first == IF hits = {} THEN 0
                 ELSE CHOOSE i \in hits : \A j \in hits : i <= j
        formattedAddress ==
            [i \in 1..Len(addr) |-> IF i = first THEN "-" ELSE addr[i]]
        parts == Split(formattedAddress, "@")
        username == parts[1]
        instance == IF Len(parts) >= 2 THEN parts[2] ELSE Undefined
    IN username \o <<".">> \o instance \o ApBridGy

\* A mutation of convertAddressFormat: the dots are replaced as well.
convertAddressFormat_DotsToo(addr) ==
    LET formattedAddress == ReplaceAll(addr, {"_", "~", "."}, "-")
        parts == Split(formattedAddress, "@")
        username == parts[1]
        instance == IF Len(parts) >= 2 THEN parts[2] ELSE Undefined
    IN username \o <<".">> \o instance \o ApBridGy

\* function convertAddressFormat(address)
convertAddressFormat(addr) ==
    LET formattedAddress == ReplaceAll(addr, {"_", "~"}, "-")
        parts == Split(formattedAddress, "@")
        \* const [username, instance] = ...: the first two parts; a missing
        \* second part is undefined and prints as "undefined"
        username == parts[1]
        instance == IF Len(parts) >= 2 THEN parts[2] ELSE Undefined
    IN username \o <<".">> \o instance \o ApBridGy

\* A mutation of excludeDomain: the last suffix of the denylist is forgotten.
excludeDomain_NoBirdMakeup(addr) ==
    EndsWith(addr, AtBskyBridGy) \/ EndsWith(addr, AtThreadsNet)

\* function excludeDomain(address)
excludeDomain(addr) ==
    \/ EndsWith(addr, AtBskyBridGy)
    \/ EndsWith(addr, AtThreadsNet)
    \/ EndsWith(addr, AtBirdMakeup)

\* ---- inputs of the codec
MaxLen == 3

Alphabet == {"a", "_", "~", ".", "@"}

Words(n) == UNION {[1..k -> Alphabet] : k \in 0..n}

AtMastodonSocial ==
    <<"@","m","a","s","t","o","d","o","n",".","s","o","c","i","a","l">>

Alice == <<"a","l","i","c","e">> \o AtBskyBridGy
Bob == <<"b","o","b">> \o AtThreadsNet
Carol == <<"c","a","r","o","l">> \o AtBirdMakeup
Dave == <<"d","a","v","e">> \o AtMastodonSocial
JoHn == <<"j","o","_","h","n">> \o AtMastodonSocial

Tails ==
    {<<>>, AtBskyBridGy, AtThreadsNet, AtBirdMakeup, AtMastodonSocial,
     Tail(AtBskyBridGy)}

AddressInputs ==
    {p \o t \o q : p \in Words(MaxLen), t \in Tails, q \in {<<>>, <<"a">>}}
        \cup {Alice, Bob, Carol, Dave, JoHn}

CodecStart ==
    /\ codecPc = "input"
    /\ address \in AddressInputs
    /\ newAddress = <<>>
    /\ excluded = FALSE

\* The codec is not under study: no address is held.
CodecIdle ==
    /\ codecPc = "idle"
    /\ address = <<>>
    /\ newAddress = <<>>
    /\ excluded = FALSE

\* const newAddress = convertAddressFormat(row['Account address'])
Convert ==
    /\ codecPc = "input"
    /\ newAddress' = convertAddressFormat(address)
    /\ codecPc' = "converted"
    /\ UNCHANGED <<address, excluded, notCodec>>

\* excludeDomain(row['Account address'])
Exclude ==
    /\ codecPc = "converted"
    /\ excluded' = excludeDomain(address)
    /\ codecPc' = "checked"
    /\ UNCHANGED <<address, newAddress, notCodec>>

CodecNext == Convert \/ Exclude

\* ---- claims about the codec and the filter

\* user@instance with exactly one '@' and both parts non-empty
WellFormed(a) ==
    /\ Cardinality({i \in 1..Len(a) : a[i] = "@"}) = 1
    /\ a[1] # "@"
    /\ a[Len(a)] # "@"

\* C1: for every well-formed user@instance, convertAddressFormat returns
\* user + '.' + instance + '.ap.brid.gy' where every '_' and '~' of user and
\* instance has become '-' and every other character, the dots of the
\* instance included, is unchanged. Stated position by position: the '@'
\* becomes the joining '.', '_' and '~' become '-', the rest is copied, and
\* '.ap.brid.gy' follows.
C1_ConvertWellFormed ==
    (codecPc # "input" /\ WellFormed(address)) =>
        /\ Len(newAddress) = Len(address) + Len(ApBridGy)
        /\ \A i \in 1..Len(address) :
              newAddress[i] =
                  IF address[i] = "@" THEN "."
                  ELSE IF address[i] \in {"_", "~"} THEN "-"
                  ELSE address[i]
        /\ SubSeq(newAddress, Len(address) + 1, Len(newAddress)) = ApBridGy

\* A well-formed address with a '.' in the instance and two characters to
\* replace has been converted.
C1_Witness ==
    /\ codecPc = "converted"
    /\ WellFormed(address)
    /\ Cardinality({i \in 1..Len(address) : address[i] \in {"_", "~"}}) >= 2
    /\ \E i, j \in 1..Len(address) :
          i < j /\ address[i] = "@" /\ address[j] = "."

JoHnDashed ==
    <<"j","o","-","h","n",".","m","a","s","t","o","d","o","n","-",
      "s","o","c","i","a","l">> \o ApBridGy

JoHnDotted ==
    <<"j","o","-","h","n",".","m","a","s","t","o","d","o","n",".",
      "s","o","c","i","a","l">> \o ApBridGy

\* C2 as stated: jo_hn@mastodon.social is mapped to
\* jo-hn.mastodon-social.ap.brid.gy (the dot of the instance turned into '-').
C2_Original ==
    (codecPc # "input" /\ address = JoHn) => newAddress = JoHnDashed

\* C2 as amended: jo_hn@mastodon.social is mapped to
\* jo-hn.mastodon.social.ap.brid.gy, the dot of the instance kept.
C2_Amended ==
    (codecPc # "input" /\ address = JoHn) => newAddress = JoHnDotted

\* jo_hn@mastodon.social has been converted.
C2_Witness == codecPc = "converted" /\ address = JoHn

\* s ends with suffix, position by position
HasSuffixAt(s, suffix) ==
    /\ Len(s) >= Len(suffix)
    /\ \A k \in 1..Len(suffix) : s[Len(s) - Len(suffix) + k] = suffix[k]

\* C3: excludeDomain(address) is true exactly when address ends with
\* '@bsky.brid.gy', '@threads.net' or '@bird.makeup'; alice@bsky.brid.gy,
\* bob@threads.net and carol@bird.makeup are excluded and
\* dave@mastodon.social is not.
C3_ExcludeExactly ==
    codecPc = "checked" =>
        /\ excluded <=>
              \E suffix \in {AtBskyBridGy, AtThreadsNet, AtBirdMakeup} :
                  HasSuffixAt(address, suffix)
        /\ address \in {Alice, Bob, Carol} => excluded
        /\ address = Dave => ~excluded

\* carol@bird.makeup has been checked and found excluded.
C3_Witness == codecPc = "checked" /\ address = Carol /\ excluded


(***************************************************************************)
(* Mastodon->Bluesky run: mastoToBsky.js main                              *)
(***************************************************************************)

Null == "null"

\* no closure is being awaited
NoRequest == [newAddress |-> <<>>, profileUrl |-> <<>>, src |-> <<>>]

\* no answer of checkAccountExists is held
NoResult == [exists |-> FALSE, address |-> <<>>, error |-> Null]

\* resolveHandleToDid returns null
NullDid == <<>>

\* an output file that has not been written
Unwritten == [written |-> FALSE, rows |-> <<>>]

\* an output file holding rows
Written(rows) == [written |-> TRUE, rows |-> rows]

\* let requestsInProgress < 10
ConcurrencyLimit == 10

ProfilePrefix ==
    <<"h","t","t","p","s",":","/","/","b","s","k","y",".","a","p","p",
      "/","p","r","o","f","i","l","e","/">>

\* What an HTTP request can come to: a status, or no response at all.
HttpAnswers == {"200", "204", "404", "neterr"}

\* axios.get with the default validateStatus: a status outside 2xx and a
\* failed request both throw.
AxiosThrows(answer) == answer \in {"404", "neterr"}

\* a lookup that takes every answer that does not throw for a profile
checkAccountExists_AnyResponse(accountAddress, answer) ==
    LET formattedAddress == RemoveFirst(accountAddress, "@")
    IN IF AxiosThrows(answer)
       THEN [exists |-> FALSE, address |-> formattedAddress, error |-> answer]
       ELSE [exists |-> TRUE, address |-> formattedAddress, error |-> Null]

\* async function checkAccountExists(accountAddress), given what the profile
\* lookup answers
checkAccountExists(accountAddress, answer) ==
    LET formattedAddress == RemoveFirst(accountAddress, "@")
    IN IF AxiosThrows(answer)
       THEN [exists |-> FALSE, address |-> formattedAddress, error |-> answer]
       ELSE [exists |-> (answer = "200"), address |-> formattedAddress,
             error |-> Null]

\* The DID the network holds for a handle (com.atproto.identity.resolveHandle).
DidOf(handle) == <<"did">> \o handle

\* async function resolveHandleToDid(handle), given whether the lookup
\* succeeds
resolveHandleToDid(handle, ok) == IF ok THEN DidOf(handle) ELSE NullDid

\* A mutation of the queued closure: the answer itself is tested, not its
\* exists field.
LookupPassed_Any(r) == TRUE

\* if (result.exists)
LookupPassed(r) == r.exists

\* A mutation of the 'data' handler: the exclusion test is dropped.
ShouldEnqueue_Always(addr) == TRUE

\* if (!excludeDomain(row['Account address']))
ShouldEnqueue(addr) == ~excludeDomain(addr)

\* ---- inputs of the run
MaxRows == 3

\* the longest queue handed to processRequestQueue on its own
MaxQueue == 12

\* The addresses a row of the export can hold.
AddressPool == {Alice, Carol, Dave, JoHn}

FollowedDidsInputs ==
    SUBSET {DidOf(convertAddressFormat(a)) : a \in {Dave, JoHn}}

M2bStart ==
    /\ m2bPc = "reading"
    /\ rowsRead = <<>>
    /\ readError = FALSE
    /\ requestQueue = <<>>
    /\ requestsInProgress = 0
    /\ request = NoRequest
    /\ result = NoResult
    /\ results = <<>>
    /\ probed = {}
    /\ followCheck \in BOOLEAN
    /\ followedDids \in (IF followCheck THEN FollowedDidsInputs ELSE {{}})
    /\ filterIndex = 0
    /\ filteredResults = <<>>
    /\ outputCsv = Unwritten
    /\ outputHtml = Unwritten

\* No run is under study.
M2bIdle ==
    /\ m2bPc = "idle"
    /\ rowsRead = <<>>
    /\ readError = FALSE
    /\ requestQueue = <<>>
    /\ requestsInProgress = 0
    /\ request = NoRequest
    /\ result = NoResult
    /\ results = <<>>
    /\ probed = {}
    /\ followCheck = FALSE
    /\ followedDids = {}
    /\ filterIndex = 0
    /\ filteredResults = <<>>
    /\ outputCsv = Unwritten
    /\ outputHtml = Unwritten

\* The export held n rows for dave@mastodon.social and has been read to its
\* end: processRequestQueue is about to run on the n queued closures.
RunnerStart ==
    /\ m2bPc = "queue"
    /\ \E n \in 0..MaxQueue :
          /\ rowsRead = [k \in 1..n |-> Dave]
          /\ requestQueue =
                [k \in 1..n |->
                    [newAddress |-> convertAddressFormat(Dave),
                     profileUrl |->
                         ProfilePrefix \o
                             RemoveFirst(convertAddressFormat(Dave), "@"),
                     src |-> Dave]]
    /\ readError = FALSE
    /\ requestsInProgress = 0
    /\ request = NoRequest
    /\ result = NoResult
    /\ results = <<>>
    /\ probed = {}
    /\ followCheck = FALSE
    /\ followedDids = {}
    /\ filterIndex = 0
    /\ filteredResults = <<>>
    /\ outputCsv = Unwritten
    /\ outputHtml = Unwritten

\* .on('data', (row) => ...): one row of the export is read
CsvData ==
    /\ m2bPc = "reading"
    /\ Len(rowsRead) < MaxRows
    /\ \E row \in AddressPool :
          LET newAddr == convertAddressFormat(row)
              profileUrl == ProfilePrefix \o RemoveFirst(newAddr, "@")
          IN /\ rowsRead' = Append(rowsRead, row)
             /\ requestQueue' =
                   IF ShouldEnqueue(row)
                   THEN Append(requestQueue,
                               [newAddress |-> newAddr,
                                profileUrl |-> profileUrl,
                                src |-> row])
                   ELSE requestQueue
    /\ UNCHANGED <<m2bPc, readError, requestsInProgress, request, result,
                   results, probed, followCheck, followedDids, filterIndex,
                   filteredResults, outputCsv, outputHtml, notM2b>>

\* .on('end', async () => ...): the export is read to its end
CsvEnd ==
    /\ m2bPc = "reading"
    /\ m2bPc' = "queue"
    /\ UNCHANGED <<rowsRead, readError, requestQueue, requestsInProgress,
                   request, result, results, probed, followCheck, followedDids,
                   filterIndex, filteredResults, outputCsv, outputHtml,
                   notM2b>>

\* .on('error', async (error) => ...): the stream fails; the handler goes
\* straight to writing the results
CsvError ==
    /\ m2bPc = "reading"
    /\ readError' = TRUE
    /\ m2bPc' = "writeCsv"
    /\ UNCHANGED <<rowsRead, requestQueue, requestsInProgress, request,
                   result, results, probed, followCheck, followedDids, filterIndex,
                   filteredResults, outputCsv, outputHtml, notM2b>>

\* A mutation of processRequestQueue: every queued request is started at
\* once, neither awaited nor held back by the limit.
ProcessRequestQueueIter_Unbounded ==
    /\ m2bPc = "queue"
    /\ requestQueue # <<>>
    /\ requestQueue' = Tail(requestQueue)
    /\ requestsInProgress' = requestsInProgress + 1
    /\ probed' = probed \cup
          {[src |-> Head(requestQueue).src, lookup |-> Null,
            exists |-> FALSE, error |-> Null, page |-> Null]}
    /\ UNCHANGED <<m2bPc, rowsRead, readError, request, result, results,
                   followCheck, followedDids, filterIndex, filteredResults, outputCsv,
                   outputHtml, notM2b>>

\* A mutation of processRequestQueue: the request is taken from the end of
\* the queue (pop in place of shift).
ProcessRequestQueueIter_Pop ==
    /\ m2bPc = "queue"
    /\ requestQueue # <<>>
    /\ IF requestsInProgress < ConcurrencyLimit
       THEN /\ request' = requestQueue[Len(requestQueue)]
            /\ requestQueue' = SubSeq(requestQueue, 1, Len(requestQueue) - 1)
            /\ requestsInProgress' = requestsInProgress + 1
            /\ m2bPc' = "lookup"
       ELSE UNCHANGED <<request, requestQueue, requestsInProgress, m2bPc>>
    /\ UNCHANGED <<rowsRead, readError, result, results, probed,
                   followCheck, followedDids, filterIndex, filteredResults, outputCsv,
                   outputHtml, notM2b>>

\* processRequestQueue, one turn of while (requestQueue.length > 0): below
\* the limit the head of the queue is shifted, counted and awaited;
\* otherwise the loop sleeps 100 ms and looks again
ProcessRequestQueueIter ==
    /\ m2bPc = "queue"
    /\ requestQueue # <<>>
    /\ IF requestsInProgress < ConcurrencyLimit
       THEN /\ request' = Head(requestQueue)
            /\ requestQueue' = Tail(requestQueue)
            /\ requestsInProgress' = requestsInProgress + 1
            /\ m2bPc' = "lookup"
       ELSE UNCHANGED <<request, requestQueue, requestsInProgress, m2bPc>>
    /\ UNCHANGED <<rowsRead, readError, result, results, probed,
                   followCheck, followedDids, filterIndex, filteredResults, outputCsv,
                   outputHtml, notM2b>>

\* processRequestQueue returns (the queue is empty); main goes on to the
\* already-followed filter when -f was given, else to writing
ProcessRequestQueueExit ==
    /\ m2bPc = "queue"
    /\ requestQueue = <<>>
    /\ IF followCheck
       THEN /\ m2bPc' = "filter"
            /\ filterIndex' = 1
            /\ filteredResults' = <<>>
       ELSE /\ m2bPc' = "writeCsv"
            /\ UNCHANGED <<filterIndex, filteredResults>>
    /\ UNCHANGED <<rowsRead, readError, requestQueue, requestsInProgress,
                   request, result, results, probed, followCheck, followedDids,
                   outputCsv, outputHtml, notM2b>>

\* The queued closure, first await: checkAccountExists(newAddress) returns.
\* Without exists the closure is over and processRequestQueue counts it out.
LookupReturn ==
    /\ m2bPc = "lookup"
    /\ \E answer \in HttpAnswers :
          LET r == checkAccountExists(request.newAddress, answer)
          IN IF LookupPassed(r)
             THEN /\ result' = r
                  /\ m2bPc' = "profile"
                  /\ probed' = probed \cup
                        {[src |-> request.src, lookup |-> answer,
                          exists |-> r.exists, error |-> r.error,
                          page |-> "pending"]}
                  /\ UNCHANGED <<request, requestsInProgress>>
             ELSE /\ result' = NoResult
                  /\ request' = NoRequest
                  /\ requestsInProgress' = requestsInProgress - 1
                  /\ probed' = probed \cup
                        {[src |-> request.src, lookup |-> answer,
                          exists |-> r.exists, error |-> r.error,
                          page |-> Null]}
                  /\ m2bPc' = "queue"
    /\ UNCHANGED <<rowsRead, readError, requestQueue, results, followCheck, followedDids,
                   filterIndex, filteredResults, outputCsv, outputHtml,
                   notM2b>>

\* A mutation of the queued closure: the row is pushed whatever the profile
\* page answers.
ProfileReturn_AnyStatus ==
    /\ m2bPc = "profile"
    /\ \E answer \in {"200", "404", "neterr"} :
          /\ results' =
                Append(results,
                       [address |-> result.address,
                        profileUrl |-> request.profileUrl,
                        src |-> request.src])
          /\ probed' =
                {IF p.page = "pending" THEN [p EXCEPT !.page = answer] ELSE p :
                    p \in probed}
    /\ result' = NoResult
    /\ request' = NoRequest
    /\ requestsInProgress' = requestsInProgress - 1
    /\ m2bPc' = "queue"
    /\ UNCHANGED <<rowsRead, readError, requestQueue, followCheck, followedDids,
                   filterIndex, filteredResults, outputCsv, outputHtml,
                   notM2b>>

\* The queued closure, second await: axios.get(profileUrl, { validateStatus:
\* null }) returns or throws; only status 200 pushes a row
ProfileReturn ==
    /\ m2bPc = "profile"
    /\ \E answer \in {"200", "404", "neterr"} :
          /\ results' =
                IF answer = "200"
                THEN Append(results,
                            [address |-> result.address,
                             profileUrl |-> request.profileUrl,
                             src |-> request.src])
                ELSE results
          /\ probed' =
                {IF p.page = "pending" THEN [p EXCEPT !.page = answer] ELSE p :
                    p \in probed}
    /\ result' = NoResult
    /\ request' = NoRequest
    /\ requestsInProgress' = requestsInProgress - 1
    /\ m2bPc' = "queue"
    /\ UNCHANGED <<rowsRead, readError, requestQueue, followCheck, followedDids,
                   filterIndex, filteredResults, outputCsv, outputHtml,
                   notM2b>>

\* for (const row of results): resolveHandleToDid(handle) returns; the row
\* is kept when there is no DID or the DID is not followed
FilterRow ==
    /\ m2bPc = "filter"
    /\ filterIndex <= Len(results)
    /\ \E ok \in BOOLEAN :
          LET row == results[filterIndex]
              did == resolveHandleToDid(row.address, ok)
          IN filteredResults' =
                IF did = NullDid \/ did \notin followedDids
                THEN Append(filteredResults, row)
                ELSE filteredResults
    /\ filterIndex' = filterIndex + 1
    /\ UNCHANGED <<m2bPc, rowsRead, readError, requestQueue,
                   requestsInProgress, request, result, results, probed,
                   followCheck, followedDids, outputCsv, outputHtml, notM2b>>

\* results.length = 0; results.push(...filteredResults)
FilterDone ==
    /\ m2bPc = "filter"
    /\ filterIndex > Len(results)
    /\ results' = filteredResults
    /\ m2bPc' = "writeCsv"
    /\ UNCHANGED <<rowsRead, readError, requestQueue, requestsInProgress,
                   request, result, probed, followCheck, followedDids, filterIndex,
                   filteredResults, outputCsv, outputHtml, notM2b>>

\* await writeResultsToFile()
WriteResultsToFile ==
    /\ m2bPc = "writeCsv"
    /\ outputCsv' = Written(results)
    /\ m2bPc' = "writeHtml"
    /\ UNCHANGED <<rowsRead, readError, requestQueue, requestsInProgress,
                   request, result, results, probed, followCheck, followedDids,
                   filterIndex, filteredResults, outputHtml, notM2b>>

\* await writeResultsToHtml(); resolve()
WriteResultsToHtml ==
    /\ m2bPc = "writeHtml"
    /\ outputHtml' = Written(results)
    /\ m2bPc' = "done"
    /\ UNCHANGED <<rowsRead, readError, requestQueue, requestsInProgress,
                   request, result, results, probed, followCheck, followedDids,
                   filterIndex, filteredResults, outputCsv, notM2b>>

\* processRequestQueue and the closures it awaits
RunnerNext ==
    \/ ProcessRequestQueueIter
    \/ ProcessRequestQueueExit
    \/ LookupReturn
    \/ ProfileReturn

M2bNext ==
    \/ CsvData
    \/ CsvEnd
    \/ CsvError
    \/ RunnerNext
    \/ FilterRow
    \/ FilterDone
    \/ WriteResultsToFile
    \/ WriteResultsToHtml

(***************************************************************************)
(* Network-A batch loop: main of the Bluesky->Mastodon run, the version    *)
(* that probes a Mastodon instance for every handle                        *)
(***************************************************************************)

\* if (checkCount >= 299)
RotateAfter == 299

HttpsPrefix == <<"h","t","t","p","s",":","/","/">>

MastodonSocial == Tail(AtMastodonSocial)
VivaldiSocial == <<"v","i","v","a","l","d","i",".","s","o","c","i","a","l">>

\* What the search request of checkMastodonAccount can come to: a non-empty
\* account list, an empty one, HTTP 429, or any other failure.
SearchAnswers == {"found", "empty", "429", "error"}

\* A mutation of checkMastodonAccount: every failed request is reported as
\* rate limiting.
checkMastodonAccount_ErrorAsRateLimited(handle, instance, answer) ==
    IF answer = "found"
    THEN [exists |-> TRUE, instance |-> instance, rateLimited |-> FALSE]
    ELSE IF answer \in {"429", "error"}
    THEN [exists |-> FALSE, instance |-> instance, rateLimited |-> TRUE]
    ELSE [exists |-> FALSE, instance |-> instance, rateLimited |-> FALSE]

\* A mutation of checkMastodonAccount: HTTP 429 is reported like any other
\* failure.
checkMastodonAccount_RateLimitedAsAbsent(handle, instance, answer) ==
    IF answer = "found"
    THEN [exists |-> TRUE, instance |-> instance, rateLimited |-> FALSE]
    ELSE [exists |-> FALSE, instance |-> instance, rateLimited |-> FALSE]

\* async function checkMastodonAccount(handle, instance), given what the
\* search request comes to
checkMastodonAccount(handle, instance, answer) ==
    IF answer = "found"
    THEN [exists |-> TRUE, instance |-> instance, rateLimited |-> FALSE]
    ELSE IF answer = "429"
    THEN [exists |-> FALSE, instance |-> instance, rateLimited |-> TRUE]
    ELSE [exists |-> FALSE, instance |-> instance, rateLimited |-> FALSE]

\* const fullHandle = `@${handle}@bsky.brid.gy`
FullHandle(handle) == <<"@">> \o handle \o AtBskyBridGy

\* A mutation of the link: it is built on the instance that was checked.
Link_OnCheckInstance(instance, handle) ==
    HttpsPrefix \o mastodonInstanceInput \o <<"/", "@">> \o handle
        \o AtBskyBridGy

\* const link = `https://${outputInstance}/@${handle}@bsky.brid.gy`
Link(instance, handle) ==
    HttpsPrefix \o instance \o <<"/", "@">> \o handle \o AtBskyBridGy

\* A mutation of the rate-limit branch: the i-- is forgotten.
RetryIndex_NoDecrement(idx) == idx

\* A mutation of the rate-limit branch: the loop starts over.
RetryIndex_Restart(idx) == 0 - 1

\* i--; continue;
RetryIndex(idx) == idx - 1

\* ---- inputs of the batch loop
MaxHandles == 3

\* how many 429 answers the model lets the instance give in one run
MaxRateLimited == 2

AlBsky == <<"a","l",".","b","s","k","y">>
BoBsky == <<"b","o",".","b","s","k","y">>

HandlePool == {AlBsky, BoBsky, AlBsky \o <<" ">>}

Instances == {MastodonSocial, VivaldiSocial}

BatchStart ==
    /\ batchPc = "loop"
    /\ filteredHandles \in UNION {[1..n -> HandlePool] : n \in 0..MaxHandles}
    /\ instanceAnswers = SearchAnswers
    /\ batchI = 0
    /\ checkCount = 0
    /\ instanceIndex = 0
    /\ mastodonInstanceInput \in Instances
    /\ outputInstance \in Instances
    /\ accountHandlesCsv = <<>>
    /\ probeLog = <<>>
    /\ rateLimitedSeen = 0

\* a run of more handles than one instance is asked before the counter
\* is reset
LongRun == 300

\* A long run begins: the same handle LongRun times, on an instance that
\* gives one answer throughout.
BatchStartLong ==
    /\ batchPc = "loop"
    /\ filteredHandles = [k \in 1..LongRun |-> AlBsky]
    /\ instanceAnswers \in {{"found"}, {"empty"}, {"error"}}
    /\ batchI = 0
    /\ checkCount = 0
    /\ instanceIndex = 0
    /\ mastodonInstanceInput = MastodonSocial
    /\ outputInstance = VivaldiSocial
    /\ accountHandlesCsv = <<>>
    /\ probeLog = <<>>
    /\ rateLimitedSeen = 0

\* No batch loop is under study.
BatchIdle ==
    /\ batchPc = "idle"
    /\ filteredHandles = <<>>
    /\ instanceAnswers = SearchAnswers
    /\ batchI = 0
    /\ checkCount = 0
    /\ instanceIndex = 0
    /\ mastodonInstanceInput = MastodonSocial
    /\ outputInstance = MastodonSocial
    /\ accountHandlesCsv = <<>>
    /\ probeLog = <<>>
    /\ rateLimitedSeen = 0

\* for (let i = 0; i < filteredHandles.length; i++), from the loop test to
\* the call of checkMastodonAccount: the counter is rotated at 299 and the
\* probe of filteredHandles[i] is sent to the CHECK instance
BatchProbe ==
    /\ batchPc = "loop"
    /\ batchI < Len(filteredHandles)
    /\ IF checkCount >= RotateAfter
       THEN /\ instanceIndex' = instanceIndex + 1
            /\ checkCount' = 0
       ELSE UNCHANGED <<instanceIndex, checkCount>>
    /\ probeLog' = Append(probeLog,
                          [index |-> batchI,
                           handle |-> Trim(filteredHandles[batchI + 1]),
                           instance |-> mastodonInstanceInput,
                           answer |-> "pending"])
    /\ batchPc' = "probe"
    /\ UNCHANGED <<filteredHandles, batchI, mastodonInstanceInput,
                   outputInstance, accountHandlesCsv, rateLimitedSeen,
                   instanceAnswers,
                   notBatch>>

\* await checkMastodonAccount(handle, mastodonInstanceInput) returns: a
\* rate-limited answer steps i back before the loop's i++ and continues;
\* any other answer is classified, a found handle is appended to the CSV,
\* and the attempt is counted
BatchProbeReturn ==
    /\ batchPc = "probe"
    /\ \E answer \in instanceAnswers :
          LET handle == Trim(filteredHandles[batchI + 1])
              mastodonCheckResult ==
                  checkMastodonAccount(handle, mastodonInstanceInput, answer)
          IN /\ answer = "429" => rateLimitedSeen < MaxRateLimited
             /\ probeLog' =
                   [probeLog EXCEPT ![Len(probeLog)].answer = answer]
             /\ IF mastodonCheckResult.rateLimited
                THEN /\ instanceIndex' = instanceIndex + 1
                     /\ checkCount' = 0
                     /\ batchI' = RetryIndex(batchI) + 1
                     /\ rateLimitedSeen' = rateLimitedSeen + 1
                     /\ UNCHANGED accountHandlesCsv
                ELSE /\ accountHandlesCsv' =
                           IF mastodonCheckResult.exists
                           THEN Append(accountHandlesCsv,
                                       [handle |-> FullHandle(handle),
                                        link |-> Link(outputInstance, handle)])
                           ELSE accountHandlesCsv
                     /\ checkCount' = checkCount + 1
                     /\ batchI' = batchI + 1
                     /\ UNCHANGED <<instanceIndex, rateLimitedSeen>>
    /\ batchPc' = "loop"
    /\ UNCHANGED <<filteredHandles, mastodonInstanceInput, outputInstance,
                   instanceAnswers, notBatch>>

\* The loop test fails: main goes on to the reporting stage.
BatchLoopExit ==
    /\ batchPc = "loop"
    /\ batchI >= Len(filteredHandles)
    /\ batchPc' = "report"
    /\ UNCHANGED <<filteredHandles, batchI, checkCount, instanceIndex,
                   mastodonInstanceInput, outputInstance, accountHandlesCsv,
                   probeLog, rateLimitedSeen, instanceAnswers, notBatch>>

\* if (errors.length > 0) ...; writeResultsToHtml(): output.html is written
\* and main asks whether to open it
BatchReport ==
    /\ batchPc = "report"
    /\ batchPc' = "prompt"
    /\ UNCHANGED <<filteredHandles, batchI, checkCount, instanceIndex,
                   mastodonInstanceInput, outputInstance, accountHandlesCsv,
                   probeLog, rateLimitedSeen, instanceAnswers, notBatch>>

\* the question is answered; showBridgedPercentage(...) prints the coverage
\* summary and the run concludes
BatchSummary ==
    /\ batchPc = "prompt"
    /\ batchPc' = "done"
    /\ UNCHANGED <<filteredHandles, batchI, checkCount, instanceIndex,
                   mastodonInstanceInput, outputInstance, accountHandlesCsv,
                   probeLog, rateLimitedSeen, instanceAnswers, notBatch>>

BatchNext ==
    \/ BatchProbe
    \/ BatchProbeReturn
    \/ BatchLoopExit
    \/ BatchReport
    \/ BatchSummary

(***************************************************************************)
(* Coverage summary: showBridgedPercentage                                 *)
(***************************************************************************)

Quote == "\""

\* appendToCSV: const row = `"${handle}","${link}"\n`, without the newline
CsvLine(row) ==
    <<Quote>> \o row.handle \o <<Quote, ",", Quote>> \o row.link \o <<Quote>>

\* initializeCSV and appendToCSV: the lines of AccountHandles.csv
CsvFileLines(rows) ==
    <<<<"H","a","n","d","l","e",",","L","i","n","k">>>>
        \o [k \in 1..Len(rows) |-> CsvLine(rows[k])]

\* line.match(/"@([^@]+)@bsky\.brid\.gy"/): the text captured by the
\* leftmost match, the empty string when nothing matches. A match starting
\* at p is '"@', one or more characters up to the next '@', '@bsky.brid.gy'
\* and '"'.
MatchBridgedHandle(line) ==
    LET MatchEnd(p) ==
            IF p + 2 > Len(line) \/ line[p] # Quote \/ line[p + 1] # "@"
            THEN 0
            ELSE LET rest == SubSeq(line, p + 2, Len(line))
                     q == IndexOf(rest, "@")
                 IN IF q <= 1 THEN 0
                    ELSE IF SubSeq(rest, q, q + Len(AtBskyBridGy))
                                = AtBskyBridGy \o <<Quote>>
                    THEN p + q
                    ELSE 0
        starts == {p \in 1..Len(line) : MatchEnd(p) # 0}
    IN IF starts = {} THEN <<>>
       ELSE LET p == CHOOSE x \in starts : \A y \in starts : x <= y
            IN SubSeq(line, p + 2, MatchEnd(p))

\* A mutation of the CSV scan: the captured handle is not lowercased.
BridgedHandleOfLine_NoLower(line) == MatchBridgedHandle(line)

\* match ? match[1].toLowerCase() : null, null being dropped by
\* filter(Boolean) like the empty string
BridgedHandleOfLine(line) == ToLowerCase(MatchBridgedHandle(line))

\* The handle a record of the Mastodon CSV stands for: only
\* ...@bsky.brid.gy addresses count, and an empty handle is dropped.
AlreadyFollowedHandle(addr) ==
    IF addr # <<>> /\ EndsWith(addr, AtBskyBridGy)
    THEN LET first == Split(addr, "@")[1]
         IN ToLowerCase(IF first # <<>> /\ Head(first) = "@"
                        THEN Tail(first) ELSE first)
    ELSE <<>>

\* readHandlesFromFile: the trimmed, non-empty lines
readHandlesFromFile(lines) ==
    SelectSeq([k \in 1..Len(lines) |-> Trim(lines[k])], LAMBDA h : h # <<>>)

Range(f) == {f[k] : k \in DOMAIN f}

\* function showBridgedPercentage(bskyHandlesPath, csvFilePath,
\* mastoCsvPath): the three numbers it prints
showBridgedPercentage(handleLines, rows, mastoGiven, mastoRecords) ==
    LET bskyHandles == readHandlesFromFile(handleLines)
        bskySet == {ToLowerCase(Trim(h)) : h \in Range(bskyHandles)}
        \* csvContent.trim().split('\n').slice(1)
        lines == Tail(CsvFileLines(rows))
        bridgedHandles ==
            {BridgedHandleOfLine(l) : l \in Range(lines)} \ {<<>>}
        alreadyFollowedHandles ==
            IF mastoGiven
            THEN {AlreadyFollowedHandle(a) : a \in Range(mastoRecords)}
                     \ {<<>>}
            ELSE {}
        bridgedSet ==
            {h \in bridgedHandles \cup alreadyFollowedHandles : h \in bskySet}
        count == Cardinality(bridgedSet)
        n == Len(bskyHandles)
    IN [bridgedCount |-> count,
        total |-> n,
        percent |-> IF n > 0 THEN ToFixed2(count * 100, n)
                    ELSE <<"0",".","0","0">>]

\* UnbridgedAccounts.csv has not been written
NoUnbridgedCsv == [written |-> FALSE, withMsg |-> FALSE, lines |-> <<>>]

\* new Set(...) of an array, in insertion order
RECURSIVE SetOfArray(_)
SetOfArray(a) ==
    IF a = <<>> THEN <<>>
    ELSE LET init == SetOfArray(SubSeq(a, 1, Len(a) - 1))
             last == a[Len(a)]
         IN IF \E k \in 1..Len(init) : init[k] = last THEN init
            ELSE Append(init, last)

\* A mutation of the unbridged list: the Mastodon CSV is not looked at.
unbridgedHandlesOf_CsvOnly(handleList, rows, mastoGiven, mastoRecords) ==
    LET allHandlesSet ==
            SetOfArray([k \in 1..Len(handleList) |->
                           ToLowerCase(Trim(handleList[k]))])
        bridgedHandlesSet ==
            {BridgedHandleOfLine(l) : l \in Range(Tail(CsvFileLines(rows)))}
                \ {<<>>}
        NotBridged(h) == h \notin bridgedHandlesSet
    IN SelectSeq(allHandlesSet, NotBridged)

\* main: allHandlesSet, bridgedHandlesSet (the handles matched in the lines
\* of AccountHandles.csv and those of the ...@bsky.brid.gy addresses of the
\* Mastodon CSV) and unbridgedHandles
unbridgedHandlesOf(handleList, rows, mastoGiven, mastoRecords) ==
    LET allHandlesSet ==
            SetOfArray([k \in 1..Len(handleList) |->
                           ToLowerCase(Trim(handleList[k]))])
        fromCsv ==
            {BridgedHandleOfLine(l) : l \in Range(Tail(CsvFileLines(rows)))}
                \ {<<>>}
        \* address.split('@')[0].replace(/^@/, '').toLowerCase()
        HandleOf(addr) ==
            LET first == Split(addr, "@")[1]
            IN ToLowerCase(IF first # <<>> /\ Head(first) = "@"
                           THEN Tail(first) ELSE first)
        fromMasto ==
            IF mastoGiven
            THEN {HandleOf(a) :
                     a \in {r \in Range(mastoRecords) :
                               r # <<>> /\ EndsWith(r, AtBskyBridGy)}}
            ELSE {}
        bridgedHandlesSet == fromCsv \cup fromMasto
        NotBridged(h) == h \notin bridgedHandlesSet
    IN SelectSeq(allHandlesSet, NotBridged)

UnbridgedHeader ==
    <<"H","a","n","d","l","e",",","B","l","u","e","S","k","y"," ","L","i",
      "n","k">>

UnbridgedHeaderMsg ==
    <<",","B","r","i","d","g","e"," ","R","e","q","u","e","s","t"," ","M",
      "e","s","s","a","g","e">>

\* `"@bsky.brid.gy@bsky.brid.gy ${handle}"`
BridgeRequestMessage(handle) ==
    <<Quote>> \o AtBskyBridGy \o AtBskyBridGy \o <<" ">> \o handle
        \o <<Quote>>

\* let output: the lines written to UnbridgedAccounts.csv
UnbridgedOutput(unbridged, wantMsg) ==
    <<UnbridgedHeader \o (IF wantMsg THEN UnbridgedHeaderMsg ELSE <<>>)>>
        \o [k \in 1..Len(unbridged) |->
               unbridged[k] \o <<",">> \o ProfilePrefix \o unbridged[k]
                   \o (IF wantMsg
                       THEN <<",">> \o BridgeRequestMessage(unbridged[k])
                       ELSE <<>>)]

\* ---- inputs of the summary
MaxFollows == 2
MaxCsvRows == 1
MaxMastoRows == 1

AlUpper == <<"A","L",".","b","s","k","y">>
CyBsky == <<"c","y",".","b","s","k","y">>

\* lines of BlueSkyHandles.txt: handles in either case, one padded with
\* blanks, and an empty line
FollowLinePool == {AlUpper, BoBsky, <<" ">> \o AlBsky \o <<" ">>, <<>>}

\* handles appended to AccountHandles.csv: one followed, one not, one empty
CsvHandlePool == {AlUpper, CyBsky, <<>>}

\* addresses of the Mastodon CSV: bridged ones, one that is not, and one
\* with an empty handle
MastoAddressPool ==
    {BoBsky \o AtBskyBridGy, AlUpper \o AtBskyBridGy, Dave, AtBskyBridGy}

SeqsUpTo(S, n) == UNION {[1..k -> S] : k \in 0..n}

\* the row appendToCSV is given for a handle
RowOf(handle) ==
    [handle |-> FullHandle(handle), link |-> Link(VivaldiSocial, handle)]

\* Ten followed handles h0.bsky .. h9.bsky
TenFollows == [k \in 1..10 |-> <<"h">> \o Digits(k - 1) \o <<".","b","s","k","y">>]

CovStart ==
    /\ covPc = "input"
    /\ \/ /\ bskyHandlesFile \in SeqsUpTo(FollowLinePool, MaxFollows)
          /\ csvRows \in
                {[k \in DOMAIN hs |-> RowOf(hs[k])] :
                    hs \in SeqsUpTo(CsvHandlePool, MaxCsvRows)}
          /\ mastoCsvGiven \in BOOLEAN
          /\ mastoCsvRecords \in
                (IF mastoCsvGiven
                 THEN SeqsUpTo(MastoAddressPool, MaxMastoRows)
                 ELSE {<<>>})
       \/ /\ bskyHandlesFile = TenFollows
          /\ \E found \in 0..3 :
                /\ csvRows = [k \in 1..found |-> RowOf(TenFollows[k + 1])]
                /\ mastoCsvGiven = (found < 3)
                /\ mastoCsvRecords =
                      [k \in 1..(3 - found) |->
                          TenFollows[found + k + 1] \o AtBskyBridGy]
    /\ bridgedCount = 0
    /\ total = 0
    /\ percent = <<>>
    /\ unbridgedHandles = <<>>
    /\ unbridgedCsv = NoUnbridgedCsv

\* No summary is under study.
CovIdle ==
    /\ covPc = "idle"
    /\ bskyHandlesFile = <<>>
    /\ csvRows = <<>>
    /\ mastoCsvGiven = FALSE
    /\ mastoCsvRecords = <<>>
    /\ bridgedCount = 0
    /\ total = 0
    /\ percent = <<>>
    /\ unbridgedHandles = <<>>
    /\ unbridgedCsv = NoUnbridgedCsv

\* showBridgedPercentage('BlueSkyHandles.txt', csvFilePath, csvPath)
ShowBridgedPercentage ==
    /\ covPc = "input"
    /\ LET r == showBridgedPercentage(bskyHandlesFile, csvRows,
                                      mastoCsvGiven, mastoCsvRecords)
       IN /\ bridgedCount' = r.bridgedCount
          /\ total' = r.total
          /\ percent' = r.percent
    /\ covPc' = "reported"
    /\ UNCHANGED <<bskyHandlesFile, csvRows, mastoCsvGiven, mastoCsvRecords,
                   unbridgedHandles, unbridgedCsv, notCov>>

\* main after the summary: the unbridged handles are found and, when there
\* are some and both questions are answered, UnbridgedAccounts.csv is
\* written
WriteUnbridged ==
    /\ covPc = "reported"
    /\ LET unbridged ==
               unbridgedHandlesOf(readHandlesFromFile(bskyHandlesFile),
                                  csvRows, mastoCsvGiven, mastoCsvRecords)
       IN /\ unbridgedHandles' = unbridged
          /\ IF unbridged # <<>>
             THEN \E wantUnbridged \in BOOLEAN, wantMsg \in BOOLEAN :
                     unbridgedCsv' =
                         IF wantUnbridged
                         THEN [written |-> TRUE, withMsg |-> wantMsg,
                               lines |-> UnbridgedOutput(unbridged, wantMsg)]
                         ELSE unbridgedCsv
             ELSE unbridgedCsv' = unbridgedCsv
    /\ covPc' = "done"
    /\ UNCHANGED <<bskyHandlesFile, csvRows, mastoCsvGiven, mastoCsvRecords,
                   bridgedCount, total, percent, notCov>>

CovNext == ShowBridgedPercentage \/ WriteUnbridged

(***************************************************************************)
(* The -c filter ahead of the network-A batch loop                         *)
(***************************************************************************)

\* handles.filter((handle, index, self) => self.indexOf(handle) === index)
RECURSIVE Unique(_)
Unique(hs) ==
    IF hs = <<>> THEN <<>>
    ELSE LET init == Unique(SubSeq(hs, 1, Len(hs) - 1))
             last == hs[Len(hs)]
         IN IF \E k \in 1..Len(init) : init[k] = last
            THEN init
            ELSE Append(init, last)

\* function readExistingCSV(csvPath), given the 'Account address' of the
\* records: the part before the first '@' of each, once
readExistingCSV(addresses) ==
    Unique([k \in 1..Len(addresses) |->
              IF addresses[k] # <<>> THEN Split(addresses[k], "@")[1]
                                     ELSE <<>>])

\* existingHandles.includes(handle.trim())
Includes(existing, handle) ==
    \E k \in 1..Len(existing) : existing[k] = Trim(handle)

\* handles.filter(handle => typeof handle === 'string' &&
\*                          !existingHandles.includes(handle.trim()))
RECURSIVE FilterHandles(_, _)
FilterHandles(hs, existing) ==
    IF hs = <<>> THEN <<>>
    ELSE IF Includes(existing, Head(hs))
         THEN FilterHandles(Tail(hs), existing)
         ELSE <<Head(hs)>> \o FilterHandles(Tail(hs), existing)

\* ---- bounds and inputs

MaxFilterHandles == 2
MaxExisting == 1

\* follows in either case of the letters
FollowPool == {AlBsky, AlUpper, BoBsky}

\* addresses of the existing CSV: bridged Bluesky accounts and one other
ExistingAddressPool ==
    {AlBsky \o AtBskyBridGy, AlUpper \o AtBskyBridGy, Dave}

FilterStart ==
    /\ batchPc = "filter"
    /\ followHandles \in SeqsUpTo(FollowPool, MaxFilterHandles)
    /\ csvPath \in BOOLEAN
    /\ existingCsv \in
          (IF csvPath THEN SeqsUpTo(ExistingAddressPool, MaxExisting)
                      ELSE {<<>>})
    /\ existingHandles = <<>>
    /\ filteredHandles = <<>>
    /\ instanceAnswers = SearchAnswers
    /\ batchI = 0
    /\ checkCount = 0
    /\ instanceIndex = 0
    /\ mastodonInstanceInput = MastodonSocial
    /\ outputInstance = VivaldiSocial
    /\ accountHandlesCsv = <<>>
    /\ probeLog = <<>>
    /\ rateLimitedSeen = 0

\* No filter is under study.
FilterIdle ==
    /\ followHandles = <<>>
    /\ csvPath = FALSE
    /\ existingCsv = <<>>
    /\ existingHandles = <<>>

\* if (csvPath) existingHandles = readExistingCSV(csvPath); const
\* filteredHandles = handles.filter(...); then the loop is entered
ReadExistingAndFilter ==
    /\ batchPc = "filter"
    /\ LET existing == IF csvPath THEN readExistingCSV(existingCsv) ELSE <<>>
       IN /\ existingHandles' = existing
          /\ filteredHandles' = FilterHandles(followHandles, existing)
    /\ batchPc' = "loop"
    /\ UNCHANGED <<followHandles, csvPath, existingCsv, batchI, checkCount,
                   instanceIndex, mastodonInstanceInput, outputInstance,
                   accountHandlesCsv, probeLog, rateLimitedSeen, instanceAnswers,
                   notFilter>>

FilterNext == ReadExistingAndFilter \/ BatchNext

(***************************************************************************)
(* Follow-list fetchers and the bridge check loop                          *)
(***************************************************************************)

FetchUserFollowsHandles == "fetchUserFollowsHandles"
FetchFollowersHandles == "fetchFollowersHandles"
FetchBridgeFollowingHandles == "fetchBridgeFollowingHandles"

BridgedViaApBridGy == "Bridged (via ap.brid.gy)"
NotBridged == "Not bridged"

\* An entry of response.data.follows (or followers): its handle property,
\* which may be missing.
Entry(h) == [hasHandle |-> TRUE, handle |-> h]
NoHandleEntry == [hasHandle |-> FALSE, handle |-> <<>>]

\* if (follow.handle): the property is there and is not the empty string
Truthy(entry) == entry.hasHandle /\ entry.handle # <<>>

\* for (const follow of response.data.follows) { ... } on one page:
\* guarded is the test "if (follow.handle)" the two array fetchers make and
\* fetchBridgeFollowingHandles does not; the break on maxEntries is theirs
\* too (maxE = 0: no cap)
RECURSIVE PushEntries(_, _, _, _, _)
PushEntries(acc, fetched, entries, maxE, guarded) ==
    IF entries = <<>>
    THEN [handles |-> acc, totalFetched |-> fetched]
    ELSE LET follow == Head(entries)
             acc2 == IF guarded => Truthy(follow)
                     THEN Append(acc, follow)
                     ELSE acc
         IN IF maxE # 0 /\ fetched + 1 >= maxE
            THEN [handles |-> acc2, totalFetched |-> fetched + 1]
            ELSE PushEntries(acc2, fetched + 1, Tail(entries), maxE, guarded)

\* What axios.get(url) can come to: a page of entries with or without a
\* cursor, a body without the array, or an exception.
PageResponse(entries, more) ==
    [kind |-> "page", entries |-> entries, cursor |-> more]
NoArrayResponse == [kind |-> "noarray", entries |-> <<>>, cursor |-> FALSE]
ErrorResponse == [kind |-> "error", entries |-> <<>>, cursor |-> FALSE]

\* a fetcher that asks again after a failed request
FetchTurn_RetryOnError(acc, fetched, maxE, guarded, response) ==
    IF response.kind = "error"
    THEN [handles |-> acc, totalFetched |-> fetched, cursor |-> FALSE,
          left |-> FALSE]
    ELSE IF response.kind # "page"
    THEN [handles |-> acc, totalFetched |-> fetched, cursor |-> FALSE,
          left |-> TRUE]
    ELSE LET p == PushEntries(acc, fetched, response.entries, maxE, guarded)
             capped == maxE # 0 /\ p.totalFetched >= maxE
         IN [handles |-> p.handles, totalFetched |-> p.totalFetched,
             cursor |-> (~capped /\ response.cursor),
             left |-> (capped \/ ~response.cursor)]

\* One turn of while (true) { ... } of a fetcher: the new locals, and
\* whether the loop was left.
FetchTurn(acc, fetched, maxE, guarded, response) ==
    IF response.kind # "page"
    THEN [handles |-> acc, totalFetched |-> fetched, cursor |-> FALSE,
          left |-> TRUE]
    ELSE LET p == PushEntries(acc, fetched, response.entries, maxE, guarded)
             capped == maxE # 0 /\ p.totalFetched >= maxE
         IN [handles |-> p.handles, totalFetched |-> p.totalFetched,
             cursor |-> (~capped /\ response.cursor),
             left |-> (capped \/ ~response.cursor)]

\* return handles: the handles of the entries pushed
ReturnedArray(acc) == [k \in 1..Len(acc) |-> acc[k].handle]

\* handles.map(h => h.toLowerCase()) throws a TypeError when an entry had
\* no handle
MapThrows(acc) == \E k \in 1..Len(acc) : ~acc[k].hasHandle

\* return new Set(handles.map(h => h.toLowerCase()))
ReturnedSet(acc) == {ToLowerCase(acc[k].handle) : k \in 1..Len(acc)}

\* bridgeFollowingSet.has(handle.toLowerCase())
HasLowerCased_Exact(set, handle) == handle \in set

HasLowerCased(set, handle) == ToLowerCase(handle) \in set

\* ---- bounds and inputs

MaxItems == 2

\* handles the API returns: one in capitals, the same in small letters,
\* another one
ApiHandlePool == {AlUpper, AlBsky, BoBsky}

\* entries of a page: with a handle, with an empty one, without any
ApiEntries == {Entry(h) : h \in ApiHandlePool \cup {<<>>}} \cup {NoHandleEntry}

MaxPages == 2

\* the responses the API can give to a fetcher when it has n entries left
\* to return: it sets no cursor on the last page
Responses(n) ==
    {PageResponse(es, more) :
        es \in SeqsUpTo(ApiEntries, n),
        more \in IF Len(apiLog) + 1 < MaxPages THEN BOOLEAN ELSE {FALSE}}
        \cup {NoArrayResponse, ErrorResponse}

\* main calls fetchUserFollowsHandles(handleOrDid); or a caller calls one
\* of the two array fetchers with or without maxEntries
ResStart ==
    /\ resPc = "follows"
    /\ \/ /\ fromMain = TRUE
          /\ fetchFn = FetchUserFollowsHandles
          /\ maxEntries = 0
       \/ /\ fromMain = FALSE
          /\ fetchFn \in {FetchUserFollowsHandles, FetchFollowersHandles}
          /\ maxEntries \in 0..MaxItems
    /\ cursor = FALSE
    /\ fetchHandles = <<>>
    /\ totalFetched = 0
    /\ apiLeft = MaxItems
    /\ apiLog = <<>>
    /\ handles = <<>>
    /\ bridgeFollowingSet = {}
    /\ bridgeI = 0
    /\ bridgeCsv = <<>>

\* No fetcher is under study.
ResIdle ==
    /\ resPc = "idle"
    /\ fromMain = FALSE
    /\ fetchFn = "none"
    /\ maxEntries = 0
    /\ cursor = FALSE
    /\ fetchHandles = <<>>
    /\ totalFetched = 0
    /\ apiLeft = 0
    /\ apiLog = <<>>
    /\ handles = <<>>
    /\ bridgeFollowingSet = {}
    /\ bridgeI = 0
    /\ bridgeCsv = <<>>

\* One turn of the loop of fetchUserFollowsHandles or fetchFollowersHandles:
\* the awaited request answers. When the loop is left the array is
\* returned; main then calls initializeCSV() and
\* fetchBridgeFollowingHandles('ap.brid.gy'), which runs to its first
\* request.
FollowsPage ==
    /\ resPc = "follows"
    /\ \E response \in Responses(apiLeft) :
          LET t == FetchTurn(fetchHandles, totalFetched, maxEntries, TRUE,
                             response)
          IN IF ~t.left
             THEN /\ fetchHandles' = t.handles
                  /\ totalFetched' = t.totalFetched
                  /\ cursor' = t.cursor
                  /\ apiLeft' = apiLeft - Len(response.entries)
                  /\ apiLog' = Append(apiLog, response)
                  /\ UNCHANGED <<resPc, fetchFn, maxEntries, handles,
                                 bridgeCsv>>
             ELSE /\ handles' = ReturnedArray(t.handles)
                  /\ IF fromMain
                     THEN /\ bridgeCsv' = <<>>
                          /\ resPc' = "bridge"
                          /\ fetchFn' = FetchBridgeFollowingHandles
                          /\ maxEntries' = 0
                          /\ cursor' = FALSE
                          /\ fetchHandles' = <<>>
                          /\ totalFetched' = 0
                          /\ apiLeft' = MaxItems
                          /\ apiLog' = <<>>
                     ELSE /\ resPc' = "done"
                          /\ fetchHandles' = t.handles
                          /\ totalFetched' = t.totalFetched
                          /\ cursor' = t.cursor
                          /\ apiLeft' = apiLeft - Len(response.entries)
                          /\ apiLog' = Append(apiLog, response)
                          /\ UNCHANGED <<fetchFn, maxEntries, bridgeCsv>>
    /\ UNCHANGED <<fromMain, bridgeFollowingSet, bridgeI, notRes>>

\* One turn of the loop of fetchBridgeFollowingHandles. When the loop is
\* left the Set is built and returned to main, or the map throws and main
\* ends with the exception.
BridgePage ==
    /\ resPc = "bridge"
    /\ \E response \in Responses(apiLeft) :
          LET t == FetchTurn(fetchHandles, totalFetched, 0, FALSE, response)
          IN /\ apiLog' = Append(apiLog, response)
             /\ fetchHandles' = t.handles
             /\ totalFetched' = t.totalFetched
             /\ cursor' = t.cursor
             /\ apiLeft' = apiLeft - Len(response.entries)
             /\ IF ~t.left
                THEN UNCHANGED <<resPc, bridgeFollowingSet>>
                ELSE IF MapThrows(t.handles)
                     THEN /\ resPc' = "threw"
                          /\ UNCHANGED bridgeFollowingSet
                     ELSE /\ resPc' = "loop"
                          /\ bridgeFollowingSet' = ReturnedSet(t.handles)
    /\ UNCHANGED <<fromMain, fetchFn, maxEntries, handles, bridgeI,
                   bridgeCsv, notRes>>

\* for (let i = 0; i < handles.length; i++) { ... appendToCSV(fullHandle,
\* link, status) ... }: one handle
BridgeCheck ==
    /\ resPc = "loop"
    /\ bridgeI < Len(handles)
    /\ LET handle == handles[bridgeI + 1]
           isBridged == HasLowerCased(bridgeFollowingSet, handle)
           status == IF isBridged THEN BridgedViaApBridGy ELSE NotBridged
       IN bridgeCsv' =
              Append(bridgeCsv,
                     [handle |-> FullHandle(handle),
                      link |-> Link(outputInstance, handle),
                      status |-> status])
    /\ bridgeI' = bridgeI + 1
    /\ UNCHANGED <<resPc, fromMain, fetchFn, maxEntries, cursor,
                   fetchHandles, totalFetched, apiLeft, apiLog, handles,
                   bridgeFollowingSet, notRes>>

\* the loop test fails
BridgeLoopExit ==
    /\ resPc = "loop"
    /\ bridgeI >= Len(handles)
    /\ resPc' = "done"
    /\ UNCHANGED <<fromMain, fetchFn, maxEntries, cursor, fetchHandles,
                   totalFetched, apiLeft, apiLog, handles,
                   bridgeFollowingSet, bridgeI, bridgeCsv, notRes>>

ResNext == FollowsPage \/ BridgePage \/ BridgeCheck \/ BridgeLoopExit

(***************************************************************************)
(* The file AccountHandles.csv over a Bluesky->Mastodon run                *)
(***************************************************************************)

AppendToCSVMain == "appendToCSV"
CsvWriterMain == "csvWriter"

\* the status texts, as characters
BridgedViaFedBridGy ==
    <<"B","r","i","d","g","e","d"," ","(","v","i","a"," ","f","e","d",".",
      "b","r","i","d",".","g","y",")">>

NotBridgedText ==
    <<"N","o","t"," ","b","r","i","d","g","e","d">>

BridgedViaApBridGyText ==
    <<"B","r","i","d","g","e","d"," ","(","v","i","a"," ","a","p",".","b",
      "r","i","d",".","g","y",")">>

\* const headers = 'Handle,Link,Status\n', without the newline
HeaderLine3 ==
    <<"H","a","n","d","l","e",",","L","i","n","k",",",
      "S","t","a","t","u","s">>

\* the header csv-writer writes for { title: 'Handle' }, { title: 'Link' }
HeaderLine2 == <<"H","a","n","d","l","e",",","L","i","n","k">>

\* appendToCSV: const row = `"${handle}","${link}","${status}"\n`, without
\* the newline
CsvLine3(handle, link, status) ==
    <<Quote>> \o handle \o <<Quote, ",", Quote>> \o link
        \o <<Quote, ",", Quote>> \o status \o <<Quote>>

\* the record csv-writer writes for { handle, link }: fields without a
\* comma, a quote or a line break are written as they are
CsvWriterLine(record) == record.handle \o <<",">> \o record.link

\* csvWriterInstance.writeRecords(records) on a file holding before: with
\* append the records are added to what the file holds and no header is
\* written; without it the file is replaced by the header and the records
WriteRecords(before, append, records) ==
    IF append
    THEN before \o [k \in 1..Len(records) |-> CsvWriterLine(records[k])]
    ELSE <<HeaderLine2>>
            \o [k \in 1..Len(records) |-> CsvWriterLine(records[k])]

\* ---- bounds and inputs

MaxFileHandles == 2

\* what the file can hold before the run: nothing, or what an earlier run
\* of either main left
FileBeforeInputs ==
    { <<>>,
      <<HeaderLine2, CsvWriterLine(RowOf(BoBsky))>>,
      <<HeaderLine3,
        CsvLine3(FullHandle(BoBsky), Link(MastodonSocial, BoBsky),
                 NotBridgedText)>> }

FileStart ==
    /\ filePc = "start"
    /\ fileVersion \in {AppendToCSVMain, CsvWriterMain}
    /\ csvPathGiven \in BOOLEAN
    /\ fileBefore \in FileBeforeInputs
    /\ accountHandlesFile = fileBefore
    /\ fileHandles \in SeqsUpTo({AlBsky, BoBsky}, MaxFileHandles)
    /\ fileI = 0
    /\ mastodonHandles = <<>>
    /\ fileRows = <<>>

\* No run is under study.
FileIdle ==
    /\ filePc = "idle"
    /\ fileVersion = "none"
    /\ csvPathGiven = FALSE
    /\ fileBefore = <<>>
    /\ accountHandlesFile = <<>>
    /\ fileHandles = <<>>
    /\ fileI = 0
    /\ mastodonHandles = <<>>
    /\ fileRows = <<>>

\* bskyToMasto.js main: initializeCSV()
InitializeCSV ==
    /\ filePc = "start"
    /\ fileVersion = AppendToCSVMain
    /\ accountHandlesFile' = <<HeaderLine3>>
    /\ filePc' = "loop"
    /\ UNCHANGED <<fileVersion, csvPathGiven, fileBefore, fileHandles, fileI,
                   mastodonHandles, fileRows, notFile>>

\* bskyToMasto.js main, one turn of the loop: isHandleBridged(handle)
\* answers and appendToCSV(fullHandle, link, status) adds the row
AppendToCSV ==
    /\ filePc = "loop"
    /\ fileVersion = AppendToCSVMain
    /\ fileI < Len(fileHandles)
    /\ \E bridged \in BOOLEAN :
          LET handle == fileHandles[fileI + 1]
              status == IF bridged THEN BridgedViaFedBridGy
                                   ELSE NotBridgedText
              row == CsvLine3(FullHandle(handle),
                              Link(outputInstance, handle), status)
          IN /\ accountHandlesFile' = Append(accountHandlesFile, row)
             /\ fileRows' = Append(fileRows, row)
    /\ fileI' = fileI + 1
    /\ UNCHANGED <<filePc, fileVersion, csvPathGiven, fileBefore, fileHandles,
                   mastodonHandles, notFile>>

\* bskyToMasto.js main: the loop test fails
AppendLoopExit ==
    /\ filePc = "loop"
    /\ fileVersion = AppendToCSVMain
    /\ fileI >= Len(fileHandles)
    /\ filePc' = "done"
    /\ UNCHANGED <<fileVersion, csvPathGiven, fileBefore, accountHandlesFile,
                   fileHandles, fileI, mastodonHandles, fileRows, notFile>>

\* csvWriter main, one turn of the check loop: checkMastodonAccount answers;
\* rateLimited repeats the handle, found pushes { handle, link }
CollectHandle ==
    /\ filePc = "start"
    /\ fileVersion = CsvWriterMain
    /\ fileI < Len(fileHandles)
    /\ \E answer \in SearchAnswers :
          LET handle == Trim(fileHandles[fileI + 1])
              r == checkMastodonAccount(handle, mastodonInstanceInput, answer)
          IN IF r.rateLimited
             THEN /\ fileI' = RetryIndex(fileI) + 1
                  /\ UNCHANGED mastodonHandles
             ELSE /\ fileI' = fileI + 1
                  /\ mastodonHandles' =
                        IF r.exists
                        THEN Append(mastodonHandles,
                                    [handle |-> FullHandle(handle),
                                     link |-> Link(outputInstance, handle)])
                        ELSE mastodonHandles
    /\ UNCHANGED <<filePc, fileVersion, csvPathGiven, fileBefore,
                   accountHandlesFile, fileHandles, fileRows, notFile>>

\* csvWriter main: csvWriter({ ..., append: csvPath ? true : false })
\* .writeRecords(mastodonHandles)
WriteMastodonHandles ==
    /\ filePc = "start"
    /\ fileVersion = CsvWriterMain
    /\ fileI >= Len(fileHandles)
    /\ accountHandlesFile' =
          WriteRecords(accountHandlesFile, csvPathGiven, mastodonHandles)
    /\ fileRows' =
          [k \in 1..Len(mastodonHandles) |-> CsvWriterLine(mastodonHandles[k])]
    /\ filePc' = "done"
    /\ UNCHANGED <<fileVersion, csvPathGiven, fileBefore, fileHandles, fileI,
                   mastodonHandles, notFile>>

FileNext ==
    \/ InitializeCSV
    \/ AppendToCSV
    \/ AppendLoopExit
    \/ CollectHandle
    \/ WriteMastodonHandles

(***************************************************************************)
(* Config-driven runs of the CLI: -f1 and -f2                              *)
(***************************************************************************)

F1 == "-f1"
F2 == "-f2"

DefaultInstance == "mastodon.social"
BskyApp == "bsky.app"

\* args[args.indexOf(flag) + 1] when the flag is there and followed by a
\* non-empty argument, "" otherwise
ArgAfter(args, flag) ==
    IF \E k \in 1..Len(args) : args[k] = flag
    THEN LET k == CHOOSE i \in 1..Len(args) :
                      /\ args[i] = flag
                      /\ \A j \in 1..(i - 1) : args[j] # flag
         IN IF k + 1 <= Len(args) THEN args[k + 1] ELSE ""
    ELSE ""

\* -f2: let args = [config.HANDLE]; if (config.FILE_PATH) args.push('-c',
\* config.FILE_PATH)
F2Args(cfg) ==
    <<cfg.HANDLE>>
        \o (IF cfg.FILE_PATH # "" THEN <<"-c", cfg.FILE_PATH>> ELSE <<>>)

\* -f1: let args = [config.FILE_PATH]; -c when CHECK_INSTANCE is set; -f
\* and the handle when HANDLE is set
F1Args(cfg) ==
    <<cfg.FILE_PATH>>
        \o (IF cfg.CHECK_INSTANCE # "" THEN <<"-c">> ELSE <<>>)
        \o (IF cfg.HANDLE # "" THEN <<"-f", cfg.HANDLE>> ELSE <<>>)

\* ---- inputs

ConfigInputs ==
    [HANDLE : {"", "me.bsky.social"},
     CHECK_INSTANCE : {"", "check.example"},
     WRITE_INSTANCE : {"", "write.example"},
     FILE_PATH : {"", "follows.csv"}]

NoConfig ==
    [HANDLE |-> "", CHECK_INSTANCE |-> "", WRITE_INSTANCE |-> "",
     FILE_PATH |-> ""]

\* what the user types at the instance prompt
InstanceAnswers == {"", "typed.example"}

CliStart ==
    /\ cliPc = "start"
    /\ cliFlag \in {F1, F2}
    /\ configFound \in BOOLEAN
    /\ config \in (IF configFound THEN ConfigInputs ELSE {NoConfig})
    /\ filePathReadable \in BOOLEAN
    /\ cliArgs = <<>>
    /\ envCheckInstance = ""
    /\ envWriteInstance = ""
    /\ exitCode = -1
    /\ prompts = <<>>
    /\ networkStarted = FALSE
    /\ exportStarted = FALSE
    /\ linkInstance = ""

\* No CLI run is under study.
CliIdle ==
    /\ cliPc = "idle"
    /\ cliFlag = "none"
    /\ configFound = FALSE
    /\ config = NoConfig
    /\ filePathReadable = FALSE
    /\ cliArgs = <<>>
    /\ envCheckInstance = ""
    /\ envWriteInstance = ""
    /\ exitCode = -1
    /\ prompts = <<>>
    /\ networkStarted = FALSE
    /\ exportStarted = FALSE
    /\ linkInstance = ""

\* if (process.argv.includes('-f2')) { ... } and the same for -f1, up to
\* the call of the script: the config path is checked, the file parsed, the
\* fields validated, the arguments and the environment set
ConfigMode ==
    /\ cliPc = "start"
    /\ LET missing ==
               IF cliFlag = F2
               THEN \/ config.HANDLE = ""
                    \/ config.CHECK_INSTANCE = ""
                    \/ config.WRITE_INSTANCE = ""
               ELSE config.FILE_PATH = ""
       IN IF ~configFound \/ missing
          THEN /\ exitCode' = 1
               /\ cliPc' = "exited"
               /\ UNCHANGED <<cliArgs, envCheckInstance, envWriteInstance>>
          ELSE /\ cliArgs' = IF cliFlag = F2 THEN F2Args(config)
                                            ELSE F1Args(config)
               /\ envCheckInstance' = config.CHECK_INSTANCE
               /\ envWriteInstance' = config.WRITE_INSTANCE
               /\ cliPc' = IF cliFlag = F2 THEN "bskyToMasto"
                                           ELSE "mastoToBsky"
               /\ UNCHANGED exitCode
    /\ UNCHANGED <<cliFlag, configFound, config, filePathReadable, prompts,
                   networkStarted, exportStarted, linkInstance, notCli>>

\* bskyToMasto.js main up to its first request: without a handle it exits
\* with 1; without --instance it asks for the instance of the links; then
\* fetchUserFollowsHandles sends its first request
BskyToMastoStart ==
    /\ cliPc = "bskyToMasto"
    /\ IF cliArgs[1] = ""
       THEN /\ exitCode' = 1
            /\ cliPc' = "exited"
            /\ UNCHANGED <<prompts, linkInstance, networkStarted>>
       ELSE /\ IF ArgAfter(cliArgs, "--instance") # ""
               THEN /\ linkInstance' = ArgAfter(cliArgs, "--instance")
                    /\ UNCHANGED prompts
               ELSE \E answer \in InstanceAnswers :
                       /\ prompts' = Append(prompts, "instance")
                       /\ linkInstance' = IF answer # "" THEN answer
                                                         ELSE DefaultInstance
            /\ networkStarted' = TRUE
            /\ cliPc' = "bskyRunning"
            /\ UNCHANGED exitCode
    /\ UNCHANGED <<cliFlag, configFound, config, filePathReadable, cliArgs,
                   envCheckInstance, envWriteInstance, exportStarted, notCli>>

\* bskyToMasto.js main returns: the rows and the report are written
BskyToMastoReturn ==
    /\ cliPc = "bskyRunning"
    /\ cliPc' = "cleanup"
    /\ UNCHANGED <<cliFlag, configFound, config, filePathReadable, cliArgs,
                   envCheckInstance, envWriteInstance, exitCode, prompts,
                   networkStarted, exportStarted, linkInstance, notCli>>

\* mastoToBsky.js main up to its first await: with -f <handle> the export
\* of the follows is started, else the CSV is opened
MastoToBskyStart ==
    /\ cliPc = "mastoToBsky"
    /\ IF ArgAfter(cliArgs, "-f") # ""
       THEN /\ exportStarted' = TRUE
            /\ networkStarted' = TRUE
            /\ cliPc' = "export"
       ELSE /\ cliPc' = "readCsv"
            /\ UNCHANGED <<exportStarted, networkStarted>>
    /\ UNCHANGED <<cliFlag, configFound, config, filePathReadable, cliArgs,
                   envCheckInstance, envWriteInstance, exitCode, prompts,
                   linkInstance, notCli>>

\* runAtprotoExport, getFollowedDids and getFollowedHandlesFromDids return,
\* or one of them throws: main rejects and nothing handles the rejection
ExportReturn ==
    /\ cliPc = "export"
    /\ \E ok \in BOOLEAN :
          IF ok
          THEN /\ cliPc' = "readCsv"
               /\ UNCHANGED exitCode
          ELSE /\ exitCode' = 1
               /\ cliPc' = "exited"
    /\ UNCHANGED <<cliFlag, configFound, config, filePathReadable, cliArgs,
                   envCheckInstance, envWriteInstance, prompts,
                   networkStarted, exportStarted, linkInstance, notCli>>

\* fs.createReadStream(inputFilename).pipe(csv()) ...: a file that cannot
\* be read makes the read stream emit 'error', which has no listener (the
\* handlers are on the parser), so the process ends; else the rows are
\* read, the queued requests made and the outputs written
ReadCsvAndProbe ==
    /\ cliPc = "readCsv"
    /\ IF ~filePathReadable
       THEN /\ exitCode' = 1
            /\ cliPc' = "exited"
            /\ UNCHANGED <<networkStarted, linkInstance>>
       ELSE /\ \E requests \in BOOLEAN :
                  networkStarted' = (networkStarted \/ requests)
            /\ linkInstance' = BskyApp
            /\ cliPc' = "cleanup"
            /\ UNCHANGED exitCode
    /\ UNCHANGED <<cliFlag, configFound, config, filePathReadable, cliArgs,
                   envCheckInstance, envWriteInstance, prompts, exportStarted,
                   notCli>>

\* readlineSync.keyInYNStrict('Would you like to clean up generated
\* files?') and process.exit(0)
CleanupPrompt ==
    /\ cliPc = "cleanup"
    /\ prompts' = Append(prompts, "cleanup")
    /\ exitCode' = 0
    /\ cliPc' = "exited"
    /\ UNCHANGED <<cliFlag, configFound, config, filePathReadable, cliArgs,
                   envCheckInstance, envWriteInstance, networkStarted,
                   exportStarted, linkInstance, notCli>>

CliNext ==
    \/ ConfigMode
    \/ BskyToMastoStart
    \/ BskyToMastoReturn
    \/ MastoToBskyStart
    \/ ExportReturn
    \/ ReadCsvAndProbe
    \/ CleanupPrompt

(***************************************************************************)
(* The HTML report of a Bluesky->Mastodon run: writeResultsToHtml          *)
(***************************************************************************)

\* the writeResultsToHtml of bskyToMasto.js, and the later one that checks
\* each row on the instance and lists the already-followed accounts
PlainReport == "plain"
CheckedReport == "checked"

BridgedPrefix == <<"b","r","i","d","g","e","d">>

AlreadyFollowedText ==
    <<"A","l","r","e","a","d","y"," ","f","o","l","l","o","w","e","d">>

ExistsOnInstanceText ==
    <<"B","r","i","d","g","e","d",","," ","e","x","i","s","t","s"," ","o",
      "n"," ","i","n","s","t","a","n","c","e">>

NotOnInstanceText ==
    <<"B","r","i","d","g","e","d",","," ","b","u","t"," ","d","o","e","s",
      " ","n","o","t"," ","e","x","i","s","t"," ","o","n"," ","t","h","e",
      " ","i","n","s","t","a","n","c","e">>

StatusGreen == "status-green"
StatusOrange == "status-orange"
StatusRed == "status-red"

\* String.prototype.startsWith
StartsWith(s, prefix) ==
    /\ Len(s) >= Len(prefix)
    /\ SubSeq(s, 1, Len(prefix)) = prefix

\* the first double quote of line at or after from, 0 when there is none
NextQuote(line, from) ==
    IF \E k \in from..Len(line) : line[k] = Quote
    THEN CHOOSE k \in from..Len(line) :
            line[k] = Quote /\ \A j \in from..(k - 1) : line[j] # Quote
    ELSE 0

\* line.match(/"([^"]*)","([^"]*)","([^"]*)"/): the three groups of the
\* leftmost match. A match starting at p is a quote, the characters up to
\* the next quote, '","', the same again, and a third quoted field.
MatchThreeFields(line) ==
    LET FieldEnd(open) ==
            IF open = 0 \/ open > Len(line) \/ line[open] # Quote
            THEN 0
            ELSE NextQuote(line, open + 1)
        NextOpen(close) ==
            IF close = 0 \/ close + 2 > Len(line)
               \/ line[close + 1] # "," \/ line[close + 2] # Quote
            THEN 0
            ELSE close + 2
        End1(p) == FieldEnd(p)
        End2(p) == FieldEnd(NextOpen(End1(p)))
        End3(p) == FieldEnd(NextOpen(End2(p)))
        starts == {p \in 1..Len(line) : End3(p) # 0}
    IN IF starts = {}
       THEN [matched |-> FALSE, handle |-> <<>>, link |-> <<>>,
             status |-> <<>>]
       ELSE LET p == CHOOSE q \in starts : \A o \in starts : q <= o
            IN [matched |-> TRUE,
                handle |-> SubSeq(line, p + 1, End1(p) - 1),
                link |-> SubSeq(line, End1(p) + 3, End2(p) - 1),
                status |-> SubSeq(line, End2(p) + 3, End3(p) - 1)]

\* handle.replace(/^@/, '')
StripLeadingAt(handle) ==
    IF handle # <<>> /\ Head(handle) = "@" THEN Tail(handle) ELSE handle

\* encodeURIComponent for the characters of an identifier: '@' is escaped
EncodeURIComponent(s) ==
    IF s = <<>> THEN <<>>
    ELSE LET Enc[k \in 1..Len(s)] ==
                 (IF k = 1 THEN <<>> ELSE Enc[k - 1])
                     \o (IF s[k] = "@" THEN <<"%","4","0">> ELSE <<s[k]>>)
         IN Enc[Len(s)]

\* the address that ends with '@bsky.brid.gy'
IsBridgedAddress(addr) == addr # <<>> /\ EndsWith(addr, AtBskyBridGy)

\* alreadyFollowedHandles: each bridged address of the existing CSV in
\* lowercase, with and without a leading @
AlreadyFollowedSet(records) ==
    UNION {{ToLowerCase(records[k]), <<"@">> \o ToLowerCase(records[k])} :
              k \in {j \in 1..Len(records) : IsBridgedAddress(records[j])}}

\* alreadyFollowedRows: a row for each bridged address of the existing CSV
AlreadyFollowedRowsOf(records, instance) ==
    LET kept == SelectSeq(records, IsBridgedAddress)
    IN [k \in 1..Len(kept) |->
          [handle |-> <<"@">> \o kept[k],
           address |-> kept[k],
           link |-> HttpsPrefix \o instance \o <<"/","@">> \o kept[k],
           status |-> AlreadyFollowedText,
           statusClass |-> StatusRed,
           existsOnInstance |-> "undefined",
           searchLink |-> <<>>]]

\* the row made of a line that matches
RowOfLine(m, instance) ==
    LET addr == StripLeadingAt(m.handle)
    IN [handle |-> m.handle,
        address |-> addr,
        link |-> HttpsPrefix \o instance \o <<"/","@">> \o addr,
        status |-> m.status,
        statusClass |-> "",
        existsOnInstance |-> "undefined",
        searchLink |-> <<>>]

\* a filter that compares the row with the set as written
RowKept_CaseSensitive(row, followed) ==
    /\ row.status # <<>>
    /\ StartsWith(ToLowerCase(row.status), BridgedPrefix)
    /\ row.address \notin followed
    /\ row.handle \notin followed

\* .filter(row => row && row.status &&
\*    row.status.toLowerCase().startsWith('bridged') &&
\*    !alreadyFollowedHandles.has(row.address.toLowerCase()) &&
\*    !alreadyFollowedHandles.has(row.handle.toLowerCase()))
RowKept(row, followed) ==
    /\ row.status # <<>>
    /\ StartsWith(ToLowerCase(row.status), BridgedPrefix)
    /\ ToLowerCase(row.address) \notin followed
    /\ ToLowerCase(row.handle) \notin followed

\* lines.slice(1).map(...).filter(...)
RECURSIVE RowsOfLines(_, _, _)
RowsOfLines(lines, followed, instance) ==
    IF lines = <<>> THEN <<>>
    ELSE LET m == MatchThreeFields(Head(lines))
             rest == RowsOfLines(Tail(lines), followed, instance)
         IN IF m.matched /\ RowKept(RowOfLine(m, instance), followed)
            THEN <<RowOfLine(m, instance)>> \o rest
            ELSE rest

\* the body of for (let row of rows), given what
\* checkProfileExistsOnInstance returned
CheckedRow(row, exists, instance) ==
    IF exists
    THEN [row EXCEPT !.status = ExistsOnInstanceText,
                     !.statusClass = StatusGreen,
                     !.existsOnInstance = "true",
                     !.searchLink = <<>>]
    ELSE [row EXCEPT !.status = NotOnInstanceText,
                     !.statusClass = StatusOrange,
                     !.existsOnInstance = "false",
                     !.searchLink =
                         HttpsPrefix \o instance
                            \o <<"/","s","e","a","r","c","h","?","q","=">>
                            \o EncodeURIComponent(<<"@">> \o row.address)]

ExistsOn(row) == row.existsOnInstance = "true"
ExistsNotOn(row) == row.existsOnInstance # "true"

\* rows.sort(...): the rows that exist on the instance first, the order
\* otherwise kept
SortExistsFirst(rs) == SelectSeq(rs, ExistsOn) \o SelectSeq(rs, ExistsNotOn)

\* the <tr> written for a row
HtmlRow(row) ==
    [handle |-> row.handle, link |-> row.link, status |-> row.status,
     statusClass |-> row.statusClass, searchLink |-> row.searchLink]

\* what the existing-CSV pool of a report run holds
AlAddress == AlBsky \o AtBskyBridGy
AlUpperAddress == AlUpper \o AtBskyBridGy
ElsewhereAddress == BoBsky \o AtMastodonSocial

MaxReportRows == 2
MaxReportExisting == 1

\* the lines main appends to AccountHandles.csv, and a line of two columns
ReportLinePool ==
    {CsvLine3(FullHandle(h), Link(MastodonSocial, h), BridgedViaFedBridGy) :
        h \in {AlBsky, AlUpper, BoBsky}}
      \cup {CsvLine3(FullHandle(BoBsky), Link(MastodonSocial, BoBsky),
                     NotBridgedText),
            CsvWriterLine([handle |-> FullHandle(AlBsky),
                           link |-> Link(MastodonSocial, AlBsky)])}

\* the answers of the instance's account lookup
ProfileAnswers == {"200", "404", "error"}

\* A run of writeResultsToHtml begins: AccountHandles.csv holds the header
\* and the lines of the run, and an existing CSV may have been given.
RepStart ==
    /\ repPc = "start"
    /\ repVersion \in {PlainReport, CheckedReport}
    /\ repCsvLines \in
          {<<HeaderLine3>> \o d : d \in SeqsUpTo(ReportLinePool, MaxReportRows)}
    /\ existingCsvPath \in BOOLEAN
    /\ existingReadable \in (IF existingCsvPath THEN BOOLEAN ELSE {FALSE})
    /\ existingRecords \in
          (IF existingCsvPath /\ existingReadable
           THEN SeqsUpTo({AlAddress, AlUpperAddress, ElsewhereAddress},
                         MaxReportExisting)
           ELSE {<<>>})
    /\ repFollowedHandles = {}
    /\ alreadyFollowedRows = <<>>
    /\ repRows = <<>>
    /\ repI = 0
    /\ htmlRows = <<>>
    /\ counts = <<>>

\* No report is under study.
RepIdle ==
    /\ repPc = "idle"
    /\ repVersion = "none"
    /\ repCsvLines = <<>>
    /\ existingCsvPath = FALSE
    /\ existingReadable = FALSE
    /\ existingRecords = <<>>
    /\ repFollowedHandles = {}
    /\ alreadyFollowedRows = <<>>
    /\ repRows = <<>>
    /\ repI = 0
    /\ htmlRows = <<>>
    /\ counts = <<>>

\* writeResultsToHtml up to the rows: the existing CSV is read inside its
\* try, AccountHandles.csv is read and its lines mapped and filtered. The
\* report of bskyToMasto.js writes output.html at once, with the one count
\* of its template.
ReportRows ==
    /\ repPc = "start"
    /\ LET readOk == existingCsvPath /\ existingReadable
           followed == IF readOk THEN AlreadyFollowedSet(existingRecords)
                                 ELSE {}
           rs == RowsOfLines(Tail(repCsvLines), followed, outputInstance)
       IN /\ repFollowedHandles' = followed
          /\ alreadyFollowedRows' =
                 IF readOk /\ repVersion = CheckedReport
                 THEN AlreadyFollowedRowsOf(existingRecords, outputInstance)
                 ELSE <<>>
          /\ repRows' = rs
          /\ IF repVersion = PlainReport
             THEN /\ htmlRows' = [k \in 1..Len(rs) |-> HtmlRow(rs[k])]
                  /\ counts' = <<Len(rs)>>
                  /\ repPc' = "done"
             ELSE /\ repPc' = "checking"
                  /\ UNCHANGED <<htmlRows, counts>>
    /\ UNCHANGED <<repVersion, repCsvLines, existingCsvPath, existingReadable,
                   existingRecords, repI, notRep>>

\* one turn of for (let row of rows): checkProfileExistsOnInstance answers
\* and the row is rewritten
ReportCheckRow ==
    /\ repPc = "checking"
    /\ repI < Len(repRows)
    /\ \E answer \in ProfileAnswers :
          repRows' = [repRows EXCEPT
                         ![repI + 1] = CheckedRow(repRows[repI + 1],
                                                  answer = "200",
                                                  outputInstance)]
    /\ repI' = repI + 1
    /\ UNCHANGED <<repPc, repVersion, repCsvLines, existingCsvPath,
                   existingReadable, existingRecords, repFollowedHandles,
                   alreadyFollowedRows, htmlRows, counts, notRep>>

\* the rows are sorted, the already-followed rows are put after them, and
\* output.html is written with the three counts of its template
ReportWrite ==
    /\ repPc = "checking"
    /\ repI = Len(repRows)
    /\ LET sorted == SortExistsFirst(repRows)
           allRows == sorted \o alreadyFollowedRows
       IN /\ repRows' = sorted
          /\ htmlRows' = [k \in 1..Len(allRows) |-> HtmlRow(allRows[k])]
          /\ counts' = <<Len(allRows), Len(sorted), Len(alreadyFollowedRows)>>
    /\ repPc' = "done"
    /\ UNCHANGED <<repVersion, repCsvLines, existingCsvPath, existingReadable,
                   existingRecords, repFollowedHandles, alreadyFollowedRows,
                   repI, notRep>>

RepNext == ReportRows \/ ReportCheckRow \/ ReportWrite

(***************************************************************************)
(* Reading the directory of exported follow records: getFollowedDids of    *)
(* mastoToBsky.js and extractHandles of bskyToMasto.js                     *)
(***************************************************************************)

GetFollowedDids == "getFollowedDids"
ExtractHandles == "extractHandles"

\* a file of the directory: whether JSON.parse accepts its content, and the
\* subject of the record it holds, "" when the record has none
FilePool ==
    {[parses |-> TRUE, subject |-> "did:plc:al"],
     [parses |-> TRUE, subject |-> "did:plc:bo"],
     [parses |-> TRUE, subject |-> ""],
     [parses |-> FALSE, subject |-> ""]}

MaxDirFiles == 3

\* what resolveHandleWithDelay can return: the handle, null, or the object
\* it returns from its catch
ResolveAnswers == {"handle", "null", "error"}

DirStart ==
    /\ dirPc = "loop"
    /\ dirFn \in {GetFollowedDids, ExtractHandles}
    /\ dirFiles \in SeqsUpTo(FilePool, MaxDirFiles)
    /\ dirI = 0
    /\ dirOut = <<>>

\* No directory is being read.
DirIdle ==
    /\ dirPc = "idle"
    /\ dirFn = "none"
    /\ dirFiles = <<>>
    /\ dirI = 0
    /\ dirOut = <<>>

\* JSON.parse(fs.readFileSync(...)) throws inside the loop, and neither
\* function nor its caller catches: the call ends with the exception
ParseFailure(out) == [pc |-> "thrown", out |-> out]

\* dids.add(json.subject)
SetAdd(out, v) ==
    IF \E k \in 1..Len(out) : out[k] = v THEN out ELSE Append(out, v)

\* one turn of for (const file of files) in getFollowedDids, or of
\* for (let i = 0; i < numFilesToProcess; i++) in extractHandles
DirReadFile ==
    /\ dirPc = "loop"
    /\ dirI < Len(dirFiles)
    /\ LET file == dirFiles[dirI + 1]
       IN IF ~file.parses
          THEN /\ dirPc' = ParseFailure(dirOut).pc
               /\ dirOut' = ParseFailure(dirOut).out
          ELSE /\ dirPc' = "loop"
               /\ IF file.subject = ""
                  THEN dirOut' = dirOut
                  ELSE IF dirFn = GetFollowedDids
                  THEN dirOut' = SetAdd(dirOut, file.subject)
                  ELSE \E answer \in ResolveAnswers :
                          \* if (handle) handles.push(handle)
                          dirOut' =
                              IF answer = "null" THEN dirOut
                              ELSE IF answer = "handle"
                              THEN Append(dirOut, file.subject)
                              ELSE Append(dirOut, "[object Object]")
    /\ dirI' = dirI + 1
    /\ UNCHANGED <<dirFn, dirFiles, notDir>>

\* return dids / return handles
DirReturn ==
    /\ dirPc = "loop"
    /\ dirI = Len(dirFiles)
    /\ dirPc' = "returned"
    /\ UNCHANGED <<dirFn, dirFiles, dirI, dirOut, notDir>>

DirNext == DirReadFile \/ DirReturn

(***************************************************************************)
(* Specifications                                                          *)
(***************************************************************************)

\* The codec and the filter applied to one address.
InitCodec == CodecStart /\ M2bIdle /\ BatchIdle /\ CovIdle /\ ResIdle
    /\ FileIdle /\ CliIdle /\ FilterIdle /\ RepIdle /\ DirIdle

SpecCodec == InitCodec /\ [][CodecNext]_vars

\* A Mastodon->Bluesky run over an export of at most MaxRows rows.
InitM2b == CodecIdle /\ M2bStart /\ BatchIdle /\ CovIdle /\ ResIdle
    /\ FileIdle /\ CliIdle /\ FilterIdle /\ RepIdle /\ DirIdle

SpecM2b == InitM2b /\ [][M2bNext]_vars

\* processRequestQueue on a queue of at most MaxQueue closures, and the
\* writing of what they found.
InitRunner == CodecIdle /\ RunnerStart /\ BatchIdle /\ CovIdle /\ ResIdle
    /\ FileIdle /\ CliIdle /\ FilterIdle /\ RepIdle /\ DirIdle

NextRunner == RunnerNext \/ WriteResultsToFile \/ WriteResultsToHtml

SpecRunner == InitRunner /\ [][NextRunner]_vars

\* The network-A batch loop over at most MaxHandles handles.
InitBatch == CodecIdle /\ M2bIdle /\ BatchStart /\ CovIdle /\ ResIdle
    /\ FileIdle /\ CliIdle /\ FilterIdle /\ RepIdle /\ DirIdle

SpecBatch == InitBatch /\ [][BatchNext]_vars

\* Every awaited probe returns, the loop goes on after it, and the question
\* of the reporting stage is answered.
SpecBatchFair == InitBatch /\ [][BatchNext]_vars /\ WF_vars(BatchNext)

\* the batch loop on its short runs and on its long ones
InitBatchLong ==
    /\ CodecIdle /\ M2bIdle /\ (BatchStart \/ BatchStartLong) /\ CovIdle
    /\ ResIdle /\ FileIdle /\ CliIdle /\ FilterIdle /\ RepIdle /\ DirIdle

SpecBatchLong == InitBatchLong /\ [][BatchNext]_vars

\* showBridgedPercentage applied to one set of files.
InitCov == CodecIdle /\ M2bIdle /\ BatchIdle /\ CovStart /\ ResIdle
    /\ FileIdle /\ CliIdle /\ FilterIdle /\ RepIdle /\ DirIdle

SpecCov == InitCov /\ [][CovNext]_vars

\* The follow-list fetchers, and main's bridge check over what they return.
InitRes == CodecIdle /\ M2bIdle /\ BatchIdle /\ CovIdle /\ ResStart
    /\ FileIdle /\ CliIdle /\ FilterIdle /\ RepIdle /\ DirIdle

SpecRes == InitRes /\ [][ResNext]_vars

\* AccountHandles.csv over one run of either Bluesky->Mastodon main.
InitFile == CodecIdle /\ M2bIdle /\ BatchIdle /\ CovIdle /\ ResIdle
    /\ FileStart /\ CliIdle /\ FilterIdle /\ RepIdle /\ DirIdle

SpecFile == InitFile /\ [][FileNext]_vars

\* A config-driven run of the CLI.
InitCli == CodecIdle /\ M2bIdle /\ BatchIdle /\ CovIdle /\ ResIdle
    /\ FileIdle /\ CliStart /\ FilterIdle /\ RepIdle /\ DirIdle

SpecCli == InitCli /\ [][CliNext]_vars

\* The -c filter and the batch loop over the handles it lets through.
InitFilter == CodecIdle /\ M2bIdle /\ FilterStart /\ CovIdle /\ ResIdle
    /\ FileIdle /\ CliIdle /\ RepIdle /\ DirIdle

SpecFilter == InitFilter /\ [][FilterNext]_vars

InitRep == CodecIdle /\ M2bIdle /\ BatchIdle /\ CovIdle /\ ResIdle
    /\ FileIdle /\ CliIdle /\ FilterIdle /\ RepStart /\ DirIdle

SpecRep == InitRep /\ [][RepNext]_vars

InitDir == CodecIdle /\ M2bIdle /\ BatchIdle /\ CovIdle /\ ResIdle
    /\ FileIdle /\ CliIdle /\ FilterIdle /\ RepIdle /\ DirStart

SpecDir == InitDir /\ [][DirNext]_vars

(***************************************************************************)
(* Claims about the Mastodon->Bluesky run                                  *)
(***************************************************************************)

\* the Exclusion Filter, stated on the characters of the address
IsExcluded(a) ==
    \E suffix \in {AtBskyBridGy, AtThreadsNet, AtBirdMakeup} :
        HasSuffixAt(a, suffix)

\* the source rows of a sequence of queue entries or result rows
Sources(rows) == {rows[k].src : k \in 1..Len(rows)}

\* C4: in a Mastodon->Bluesky run an address for which the Exclusion Filter
\* is true is never enqueued, never probed and never appears in the results
\* written to output.csv or output.html: no queue entry, awaited closure,
\* probe, result row or written row stems from an excluded row.
C4_ExcludedNeverProcessed ==
    \A a \in Sources(requestQueue) \cup {request.src}
              \cup {p.src : p \in probed}
              \cup Sources(results) \cup Sources(filteredResults)
              \cup Sources(outputCsv.rows) \cup Sources(outputHtml.rows) :
        ~IsExcluded(a)

\* A run that read an excluded row has written a non-empty output.
C4_Witness ==
    /\ m2bPc = "done"
    /\ \E k \in 1..Len(rowsRead) : IsExcluded(rowsRead[k])
    /\ outputCsv.written /\ outputCsv.rows # <<>>
    /\ outputHtml.written /\ outputHtml.rows # <<>>

\* C5: in every reachable state of processRequestQueue the number of probes
\* started and not yet completed is at most the concurrency limit of 10.
C5_AtMostLimitInFlight == requestsInProgress <= ConcurrencyLimit

\* A probe is in flight while more closures than the limit were queued.
C5_Witness ==
    /\ requestsInProgress > 0
    /\ Len(rowsRead) > ConcurrencyLimit
    /\ m2bPc \in {"lookup", "profile"}

\* The end-to-end scenario: three different identifiers were read to the
\* end of the export, e is excluded by domain, every probe of x was answered
\* EXISTS and every probe of a ABSENT, and the run is over.
C7_Scenario(e, x, a) ==
    /\ m2bPc = "done"
    /\ ~readError
    /\ Len(rowsRead) = 3
    /\ {rowsRead[k] : k \in 1..3} = {e, x, a}
    /\ Cardinality({e, x, a}) = 3
    /\ IsExcluded(e) /\ ~IsExcluded(x) /\ ~IsExcluded(a)
    /\ \E p \in probed : p.src = x
    /\ \A p \in probed : p.src = x => p.exists
    /\ \E p \in probed : p.src = a
    /\ \A p \in probed : p.src = a => ~p.exists

\* exactly one row, the one for x, in both output files
C7_OnlyRowIsFor(x) ==
    /\ outputCsv.written /\ outputHtml.written
    /\ Len(outputCsv.rows) = 1
    /\ outputCsv.rows[1].src = x
    /\ outputCsv.rows[1].address = convertAddressFormat(x)
    /\ outputHtml.rows = outputCsv.rows

\* C7 as stated: for an input of three identifiers, one excluded, one
\* reported EXISTS by the prober and one reported ABSENT, the output holds
\* exactly one row, the one for the existing identity, and the excluded
\* identifier appears nowhere in it.
C7_Original ==
    \A e, x, a \in AddressPool :
        C7_Scenario(e, x, a) =>
            /\ C7_OnlyRowIsFor(x)
            /\ e \notin Sources(outputCsv.rows) \cup Sources(outputHtml.rows)

\* C7 as amended: the same, when moreover the profile page of the existing
\* identity was fetched with HTTP 200 and, with -f, its DID is not among the
\* followed DIDs.
C7_Amended ==
    \A e, x, a \in AddressPool :
        ( /\ C7_Scenario(e, x, a)
          /\ \A p \in probed : p.src = x => p.page = "200"
          /\ followCheck =>
                DidOf(convertAddressFormat(x)) \notin followedDids )
        =>
            /\ C7_OnlyRowIsFor(x)
            /\ e \notin Sources(outputCsv.rows) \cup Sources(outputHtml.rows)

\* The amended scenario has been run to its end, with the follow check on.
C7_Witness ==
    \E e, x, a \in AddressPool :
        /\ C7_Scenario(e, x, a)
        /\ \A p \in probed : p.src = x => p.page = "200"
        /\ followCheck
        /\ followedDids # {}
        /\ DidOf(convertAddressFormat(x)) \notin followedDids


\* C12: checkAccountExists always returns a result: exists is true exactly
\* when the profile lookup answered HTTP 200; for every other status and for
\* a failed request it is false, and the result carries the error exactly
\* when the request failed.
C12_ExistsIffStatus200 ==
    \A p \in probed :
        /\ p.lookup \in HttpAnswers
        /\ p.exists <=> p.lookup = "200"
        /\ p.error # Null <=> p.lookup \in {"404", "neterr"}
        /\ p.error # Null => p.error = p.lookup

\* Lookups were answered 200, 204 and with a network error: the first
\* exists, the others do not, and only the last carries an error.
C12_Witness ==
    /\ \E p \in probed : p.lookup = "200" /\ p.exists /\ p.error = Null
    /\ \E p \in probed : p.lookup = "204" /\ ~p.exists /\ p.error = Null
    /\ \E p \in probed : p.lookup = "neterr" /\ ~p.exists /\ p.error = "neterr"

\* the probes of the input address a that passed both checks
PassedBoth(a) ==
    {p \in probed : /\ p.src = a
                    /\ p.lookup = "200" /\ p.exists
                    /\ p.page = "200"}

\* C13: every row of output.csv and of output.html is for an input address
\* that was read, whose identifier the profile lookup confirmed with HTTP 200
\* and whose profile page was fetched with HTTP 200 in this run; an address
\* whose probes all failed one of the two has no row.
C13_OutputRowsPassedBoth ==
    \A a \in Sources(outputCsv.rows) \cup Sources(outputHtml.rows) :
        /\ \E k \in 1..Len(rowsRead) : rowsRead[k] = a
        /\ PassedBoth(a) # {}

\* A run is over that wrote a row, and left out one address whose lookup
\* failed and one whose profile page was not found.
C13_Witness ==
    /\ m2bPc = "done"
    /\ outputCsv.rows # <<>>
    /\ outputHtml.rows # <<>>
    /\ \E p \in probed :
          /\ ~p.exists
          /\ p.src \notin Sources(outputCsv.rows) \cup Sources(outputHtml.rows)
    /\ \E p \in probed :
          /\ p.exists /\ p.page = "404"
          /\ p.src \notin Sources(outputCsv.rows) \cup Sources(outputHtml.rows)

\* C14: with the follow check on (-f), no account whose DID is in the set of
\* followed DIDs has a row in output.csv or output.html, whatever the
\* handle-to-DID lookups of the filter answered.
C14_FollowedNeverInOutput ==
    followCheck =>
        /\ \A k \in 1..Len(outputCsv.rows) :
              DidOf(outputCsv.rows[k].address) \notin followedDids
        /\ \A k \in 1..Len(outputHtml.rows) :
              DidOf(outputHtml.rows[k].address) \notin followedDids

\* C26: probes are started in queue order: the 'data' handler puts a
\* request at the end of the queue, a request that starts is the one at the
\* head of the queue, and nothing has been probed while the CSV is read.
C26_ProbesStartInQueueOrder ==
    /\ [](m2bPc = "reading" => (probed = {} /\ request = NoRequest))
    /\ [][/\ request' # request /\ request' # NoRequest =>
               /\ requestQueue # <<>>
               /\ request' = Head(requestQueue)
               /\ requestQueue' = Tail(requestQueue)
          /\ (m2bPc = "reading" /\ requestQueue' # requestQueue) =>
               /\ Len(requestQueue') = Len(requestQueue) + 1
               /\ SubSeq(requestQueue', 1, Len(requestQueue)) = requestQueue
               /\ requestQueue'[Len(requestQueue')].src
                     = rowsRead'[Len(rowsRead')]]_vars

\* The probe of the first of two different identifiers is under way while
\* the second waits in the queue.
C26_Witness ==
    /\ m2bPc = "lookup"
    /\ Len(rowsRead) >= 2
    /\ request.src = rowsRead[1]
    /\ requestQueue # <<>>
    /\ Head(requestQueue).src = rowsRead[2]
    /\ rowsRead[1] # rowsRead[2]

\* the sources of a is a subsequence of b
RECURSIVE IsSubsequence(_, _)
IsSubsequence(a, b) ==
    IF a = <<>> THEN TRUE
    ELSE IF b = <<>> THEN FALSE
    ELSE IF Head(a) = Head(b) THEN IsSubsequence(Tail(a), Tail(b))
    ELSE IsSubsequence(a, Tail(b))

\* C28: processRequestQueue runs the probes one at a time: requestsInProgress
\* is 0 or 1, it is below the limit whenever the loop looks at it (the
\* branch that sleeps is never taken), and the rows of the results stand in
\* the order of their addresses in the input.
C28_OneProbeAtATime ==
    /\ requestsInProgress \in {0, 1}
    /\ (m2bPc = "queue" /\ requestQueue # <<>>) =>
          requestsInProgress < ConcurrencyLimit
    /\ IsSubsequence([k \in 1..Len(results) |-> results[k].src], rowsRead)
    /\ outputCsv.written =>
          IsSubsequence([k \in 1..Len(outputCsv.rows) |-> outputCsv.rows[k].src],
                        rowsRead)

\* Two different identifiers were confirmed one after the other, and both
\* rows were written.
C28_Witness ==
    /\ m2bPc = "done"
    /\ Len(outputCsv.rows) = 2
    /\ outputCsv.rows[1].src # outputCsv.rows[2].src
    /\ requestsInProgress = 0

\* the rows read that the 'data' handler put in the queue
Enqueued == {k \in 1..Len(rowsRead) : ShouldEnqueue(rowsRead[k])}

\* C30: when the CSV stream reports a read error the run still writes
\* output.csv and output.html and ends, and the identifiers that were read
\* and put in the queue before the error have been probed.
C30_PartialOutputAfterReadError ==
    (m2bPc = "done" /\ readError) =>
        /\ outputCsv.written
        /\ outputHtml.written
        /\ \A k \in Enqueued : \E p \in probed : p.src = rowsRead[k]

(***************************************************************************)
(* Claims about the network-A batch loop                                   *)
(***************************************************************************)

\* the probes that were answered and not rate-limited
CountedProbes ==
    {k \in 1..Len(probeLog) : probeLog[k].answer \notin {"429", "pending"}}

\* C6: in the network-A batch loop a probe answered rateLimited is not
\* counted (the loop position stays on its identifier and the check counter
\* is not incremented for it: the position always equals the number of
\* probes answered otherwise, and the counter never exceeds it) and the same
\* identifier is probed again, before any later identifier is probed and
\* before the run concludes.
C6_RateLimitedRetried ==
    /\ batchI = Cardinality(CountedProbes)
    /\ checkCount <= Cardinality(CountedProbes)
    /\ \A k \in 1..Len(probeLog) :
          probeLog[k].answer = "429" =>
              IF k < Len(probeLog)
              THEN /\ probeLog[k + 1].index = probeLog[k].index
                   /\ probeLog[k + 1].handle = probeLog[k].handle
              ELSE /\ batchPc = "loop"
                   /\ batchI = probeLog[k].index
                   /\ batchI < Len(filteredHandles)
                   /\ checkCount = 0

\* A run has concluded in which the first of several identifiers was
\* answered rateLimited, probed again and then found.
C6_Witness ==
    /\ batchPc = "done"
    /\ Len(filteredHandles) >= 2
    /\ Len(probeLog) >= 3
    /\ probeLog[1].answer = "429"
    /\ probeLog[2].index = 0 /\ probeLog[2].answer = "found"
    /\ probeLog[3].index = 1

\* the probes sent for the identifier at position idx of filteredHandles
ProbesOf(idx) == {k \in 1..Len(probeLog) : probeLog[k].index = idx}

\* those of them that were answered rateLimited
RateLimitedOf(idx) == {k \in ProbesOf(idx) : probeLog[k].answer = "429"}

\* C22: a probe that fails with an error other than HTTP 429 is classified
\* as not found and is not retried: every identifier the loop has passed
\* was probed once more than it was answered rateLimited, and the CSV holds
\* a row for the probes answered found and for no other.
C22_OneProbePlusRateLimited ==
    /\ \A idx \in 0..(batchI - 1) :
          Cardinality(ProbesOf(idx)) = 1 + Cardinality(RateLimitedOf(idx))
    /\ Len(accountHandlesCsv) =
          Cardinality({k \in 1..Len(probeLog) : probeLog[k].answer = "found"})

\* A run has concluded in which an identifier was answered rateLimited and
\* then failed with another error, and a later identifier failed at once.
C22_Witness ==
    /\ batchPc = "done"
    /\ Len(probeLog) = 3
    /\ probeLog[1].answer = "429"
    /\ probeLog[2].index = 0 /\ probeLog[2].answer = "error"
    /\ probeLog[3].index = 1 /\ probeLog[3].answer = "error"
    /\ accountHandlesCsv = <<>>

\* the identifiers that have been probed and answered rateLimited only
OnlyRateLimited ==
    {idx \in 0..(Len(filteredHandles) - 1) :
        /\ ProbesOf(idx) # {}
        /\ \A k \in ProbesOf(idx) : probeLog[k].answer \in {"429", "pending"}}

\* C23: there is no retry cap: as long as an identifier has been answered
\* rateLimited on every attempt, however many there were, the loop stands
\* on that identifier, no identifier after it has been probed and the run
\* has not reached its reporting stage.
C23_RateLimitedOnlyNeverPassed ==
    \A idx \in OnlyRateLimited :
        /\ batchPc \in {"loop", "probe"}
        /\ batchI = idx
        /\ \A k \in 1..Len(probeLog) : probeLog[k].index <= idx
        /\ batchPc = "loop" => batchI < Len(filteredHandles)

\* The first identifier was answered rateLimited as often as the instance
\* does so in a run, identifiers wait after it, and the loop is about to
\* probe it again.
C23_Witness ==
    /\ batchPc = "loop"
    /\ Len(filteredHandles) >= 2
    /\ rateLimitedSeen = MaxRateLimited
    /\ Len(probeLog) = MaxRateLimited
    /\ \A k \in 1..Len(probeLog) :
          probeLog[k].index = 0 /\ probeLog[k].answer = "429"
    /\ batchI = 0
    /\ ENABLED BatchProbe

\* the probes of idx that classified it: answered found, empty or error
ClassifyingOf(idx) ==
    {k \in ProbesOf(idx) : probeLog[k].answer \in {"found", "empty", "error"}}

C25_ProgressNeverDecreases ==
    /\ \A k \in 1..(Len(probeLog) - 1) :
          IF probeLog[k].answer = "429"
          THEN probeLog[k + 1].index = probeLog[k].index
          ELSE probeLog[k + 1].index = probeLog[k].index + 1
    /\ probeLog # <<>> => probeLog[1].index = 0
    /\ (batchPc = "done" /\ filteredHandles # <<>>) =>
          probeLog[Len(probeLog)].index + 1 = Len(filteredHandles)

\* A run has concluded in which the second of three identifiers was
\* answered rateLimited: the position 2 was shown twice.
C25_Witness ==
    /\ batchPc = "done"
    /\ Len(filteredHandles) = 3
    /\ Len(probeLog) = 4
    /\ probeLog[2].index = 1 /\ probeLog[2].answer = "429"
    /\ probeLog[3].index = 1
    /\ probeLog[4].index = 2

SameUpToCase(a, b) ==
    /\ Len(a) = Len(b)
    /\ \A k \in 1..Len(a) :
          \/ a[k] = b[k]
          \/ \E c \in 1..26 : {a[k], b[k]} = {UpperCase[c], LowerCase[c]}

\* the handles of the follow list: the non-blank lines, without the
\* blanks around them
FollowHandles ==
    {k \in 1..Len(bskyHandlesFile) :
        \E j \in 1..Len(bskyHandlesFile[k]) : bskyHandlesFile[k][j] # " "}

\* the handle h is bridged: a row "@h@bsky.brid.gy" was appended to the
\* run's CSV for it, or the Mastodon CSV holds h@bsky.brid.gy, in any case
\* of the letters
IsBridged(h) ==
    \/ \E k \in 1..Len(csvRows) :
          SameUpToCase(csvRows[k].handle, <<"@">> \o h \o AtBskyBridGy)
    \/ /\ mastoCsvGiven
       /\ \E k \in 1..Len(mastoCsvRecords) :
             /\ HasSuffixAt(mastoCsvRecords[k], AtBskyBridGy)
             /\ SameUpToCase(
                   SubSeq(mastoCsvRecords[k], 1,
                          Len(mastoCsvRecords[k]) - Len(AtBskyBridGy)),
                   h)

\* the distinct lowercase handles of the follow list that are bridged
BridgedFollows ==
    {h \in {ToLowerCase(Trim(bskyHandlesFile[k])) : k \in FollowHandles} :
        IsBridged(h)}

\* C8: showBridgedPercentage reports bridgedCount = the number of distinct
\* lowercase handles of the follow list that are found bridged in the run's
\* CSV or already followed through the bridge, total = the number of follow
\* handles, and coverage = bridgedCount/total as a percentage with two
\* decimals ('0.00' when total is 0); with 10 followed handles of which 3
\* are bridged it reports 3 of 10 (30.00%).
C8_Coverage ==
    covPc = "reported" =>
        /\ total = Cardinality(FollowHandles)
        /\ bridgedCount = Cardinality(BridgedFollows)
        /\ Len(percent) >= 4
        /\ percent[Len(percent) - 2] = "."
        /\ LET whole == SubSeq(percent, 1, Len(percent) - 3)
               frac == SubSeq(percent, Len(percent) - 1, Len(percent))
           IN \E w \in 0..100, f \in 0..99 :
                 /\ whole = Digits(w)
                 /\ frac = Digits(f \div 10) \o Digits(f % 10)
                 \* the nearest hundredth of 100 * bridgedCount / total
                 /\ IF total = 0 THEN w = 0 /\ f = 0
                    ELSE LET err == (100 * w + f) * total
                                        - 10000 * bridgedCount
                         IN 2 * err <= total /\ 2 * err > -total
        /\ (bskyHandlesFile = TenFollows) =>
              /\ bridgedCount = 3
              /\ total = 10
              /\ percent = <<"3","0",".","0","0">>

\* The summary of ten followed handles of which three are bridged, two
\* found in the run's CSV and one already followed, has been reported.
C8_Witness ==
    /\ covPc = "reported"
    /\ bskyHandlesFile = TenFollows
    /\ Len(csvRows) = 2
    /\ mastoCsvGiven /\ Len(mastoCsvRecords) = 1


\* the distinct lowercase handles of the follow list
AllFollows ==
    {ToLowerCase(Trim(bskyHandlesFile[k])) : k \in FollowHandles}

\* C27: the unbridged list is exactly the lowercase follow handles that are
\* neither found bridged in the run's CSV nor held as an @bsky.brid.gy
\* address by the Mastodon CSV: with the summary's bridged count every
\* follow handle is counted once, as bridged or as unbridged; the file, when
\* it is written, has a line for each unbridged handle, and each message
\* reads '@bsky.brid.gy@bsky.brid.gy <handle>'.
C27_UnbridgedIsTheRest ==
    covPc = "done" =>
        /\ Range(unbridgedHandles) = AllFollows \ BridgedFollows
        /\ Len(unbridgedHandles) = Cardinality(Range(unbridgedHandles))
        /\ bridgedCount + Len(unbridgedHandles) = Cardinality(AllFollows)
        /\ unbridgedCsv.written =>
              /\ unbridgedHandles # <<>>
              /\ Len(unbridgedCsv.lines) = 1 + Len(unbridgedHandles)
              /\ \A k \in 1..Len(unbridgedHandles) :
                    LET fields == Split(unbridgedCsv.lines[k + 1], ",")
                    IN /\ fields[1] = unbridgedHandles[k]
                       /\ Len(fields) = IF unbridgedCsv.withMsg THEN 3 ELSE 2
                       /\ unbridgedCsv.withMsg =>
                             fields[3] =
                                 <<Quote>> \o AtBskyBridGy \o AtBskyBridGy
                                     \o <<" ">> \o unbridgedHandles[k]
                                     \o <<Quote>>

\* UnbridgedAccounts.csv was written with messages, for a follow list of
\* which one handle is bridged through the Mastodon CSV and one is not
\* bridged.
C27_Witness ==
    /\ covPc = "done"
    /\ unbridgedCsv.written /\ unbridgedCsv.withMsg
    /\ Len(unbridgedHandles) = 1
    /\ bridgedCount = 1
    /\ csvRows = <<>>
    /\ mastoCsvGiven

(***************************************************************************)
(* Claims about the follow-list fetchers and the bridge check loop         *)
(***************************************************************************)

\* the handles the API returned into the bridge follow set, as received
BridgeApiHandles == {fetchHandles[k].handle : k \in 1..Len(fetchHandles)}

\* C9: the lookup in the bridge follow set is case-insensitive: whenever
\* the check loop has written the row of a followed handle k, and the API
\* returned into the bridge follow set a handle equal to k up to the case
\* of its letters, the row says k is bridged.
C9_LookupIgnoresCase ==
    resPc \in {"loop", "done"} /\ fromMain =>
        \A j \in 1..Len(bridgeCsv) :
            (\E h \in BridgeApiHandles : SameUpToCase(h, handles[j]))
                => bridgeCsv[j].status = BridgedViaApBridGy

\* The set was built from the handle in capitals, the key is the same
\* handle in small letters, and its row says bridged.
C9_Witness ==
    /\ resPc = "done"
    /\ fromMain
    /\ BridgeApiHandles = {AlUpper}
    /\ handles = <<AlBsky>>
    /\ bridgeCsv = <<[handle |-> FullHandle(AlBsky),
                      link |-> Link(outputInstance, AlBsky),
                      status |-> BridgedViaApBridGy]>>

\* a handle without a capital letter
IsLowerCase(h) ==
    \A k \in 1..Len(h) : \A c \in 1..26 : h[k] # UpperCase[c]

\* C10: every handle in the collection a fetcher returns is in lowercase:
\* the array of fetchUserFollowsHandles or fetchFollowersHandles once it
\* has returned, and the Set of fetchBridgeFollowingHandles.
C10_ReturnedLowerCase ==
    /\ resPc \in {"bridge", "loop", "done", "threw"} =>
           \A k \in 1..Len(handles) : IsLowerCase(handles[k])
    /\ resPc \in {"loop", "done"} =>
           \A h \in bridgeFollowingSet : IsLowerCase(h)


\* the entries of the pages of a sequence of answers, in order
RECURSIVE EntriesOf(_)
EntriesOf(log) ==
    IF log = <<>> THEN <<>> ELSE Head(log).entries \o EntriesOf(Tail(log))

\* an entry that carries a handle
HasValue(entry) == entry.hasHandle /\ Len(entry.handle) > 0

\* the handles gathered from a sequence of answers
Gathered(log) ==
    LET es == SelectSeq(EntriesOf(log), HasValue)
    IN [k \in 1..Len(es) |-> es[k].handle]

\* fetchUserFollowsHandles or fetchFollowersHandles is running, or has
\* returned to a caller other than main
ArrayFetch == fetchFn \in {FetchUserFollowsHandles, FetchFollowersHandles}

\* C11: a failed page request ends the pagination at once (it is the last
\* request made), no exception reaches the caller, and the array returned
\* holds exactly the handles of the pages answered before; the fetcher goes
\* on only while every answer carried a cursor and the cap is not reached,
\* and it returns no more handles than a positive cap.
C11_PartialOnError ==
    ArrayFetch =>
        /\ resPc \in {"follows", "done"}
        /\ \A k \in 1..Len(apiLog) :
              apiLog[k].kind = "error" => k = Len(apiLog) /\ resPc = "done"
        /\ (resPc = "done" /\ apiLog[Len(apiLog)].kind = "error")
              => handles = Gathered(apiLog)
        /\ resPc = "follows" =>
              /\ \A k \in 1..Len(apiLog) :
                    apiLog[k].kind = "page" /\ apiLog[k].cursor
              /\ maxEntries > 0 => Len(EntriesOf(apiLog)) < maxEntries
        /\ resPc = "done" =>
              \/ apiLog[Len(apiLog)].kind # "page"
              \/ ~apiLog[Len(apiLog)].cursor
              \/ maxEntries > 0 /\ Len(EntriesOf(apiLog)) >= maxEntries
        /\ (resPc = "done" /\ maxEntries > 0) => Len(handles) <= maxEntries

\* A page with one handle and a cursor was answered, the next request
\* failed, and the array returned holds that handle.
C11_Witness ==
    /\ resPc = "done"
    /\ fetchFn = FetchUserFollowsHandles
    /\ apiLog = <<PageResponse(<<Entry(AlUpper)>>, TRUE), ErrorResponse>>
    /\ handles = <<AlUpper>>


(***************************************************************************)
(* Claims about the file AccountHandles.csv                                *)
(***************************************************************************)

\* the header the main that ran writes
HeaderOfRun ==
    IF fileVersion = AppendToCSVMain THEN HeaderLine3 ELSE HeaderLine2

\* C15: AccountHandles.csv is overwritten by each run: whatever it held
\* before, after the run it holds the header followed by exactly the rows
\* the run produced, with -c as without.
C15_FileIsHeaderAndRunRows ==
    filePc = "done" => accountHandlesFile = <<HeaderOfRun>> \o fileRows


(***************************************************************************)
(* Claims about config-driven runs                                         *)
(***************************************************************************)

\* a required field of the config is missing: HANDLE, CHECK_INSTANCE or
\* WRITE_INSTANCE, or FILE_PATH for Mastodon->Bluesky (-f1)
RequiredFieldMissing ==
    \/ config.HANDLE = ""
    \/ config.CHECK_INSTANCE = ""
    \/ config.WRITE_INSTANCE = ""
    \/ cliFlag = F1 /\ config.FILE_PATH = ""

\* the input of the run, the Mastodon CSV of -f1, cannot be read
InputUnreadable ==
    cliFlag = F1 /\ config.FILE_PATH # "" /\ ~filePathReadable

\* C16: when a required field is missing or the input path cannot be read,
\* no network request and no export is ever started, and the process does
\* not end with status 0.
C16_FatalConfigAbortsFirst ==
    (configFound /\ (RequiredFieldMissing \/ InputUnreadable)) =>
        /\ ~networkStarted
        /\ ~exportStarted
        /\ exitCode # 0

\* C17: a config-driven run whose config holds every field issues no
\* prompt from start to exit, and the instance of its output links is the
\* configured WRITE_INSTANCE.
C17_ConfigRunIsNonInteractive ==
    (configFound /\ ~RequiredFieldMissing /\ config.FILE_PATH # "") =>
        /\ prompts = <<>>
        /\ linkInstance \in {"", config.WRITE_INSTANCE}


(***************************************************************************)
(* Claims about the -c filter                                              *)
(***************************************************************************)

\* C18: the -c filter matches without regard to letter case: a follow that
\* equals a handle taken from the existing CSV up to the case of its
\* letters is never probed.
C18_FilterIgnoresCase ==
    \A p \in 1..Len(probeLog) :
        \A k \in 1..Len(existingHandles) :
            ~SameUpToCase(probeLog[p].handle, existingHandles[k])

(***************************************************************************)
(* Claims about the HTML report                                            *)
(***************************************************************************)

\* the status AccountHandles.csv records for a handle
RecordedStatuses(handle) ==
    {MatchThreeFields(repCsvLines[k]).status :
        k \in {j \in 2..Len(repCsvLines) :
                  /\ MatchThreeFields(repCsvLines[j]).matched
                  /\ MatchThreeFields(repCsvLines[j]).handle = handle}}

\* C19: once the report is written, every row it renders carries a status
\* that AccountHandles.csv records for the row's handle: the report keeps
\* each row's classification as it was written and reclassifies nothing.
C19_RenderedStatusIsCsvStatus ==
    repPc = "done" =>
        \A k \in 1..Len(htmlRows) :
            htmlRows[k].status \in RecordedStatuses(htmlRows[k].handle)

NewlyBridgedRendered ==
    {k \in 1..Len(htmlRows) :
        htmlRows[k].statusClass \in {StatusGreen, StatusOrange}}

AlreadyFollowedRendered ==
    {k \in 1..Len(htmlRows) : htmlRows[k].statusClass = StatusRed}

\* the account a rendered row is about: its handle without the leading @,
\* whatever the case
AccountOf(row) == ToLowerCase(StripLeadingAt(row.handle))

\* C20: the report that lists both kinds surfaces three counts; the total
\* listed is the newly-bridged count plus the already-followed count, each
\* count is the number of rows of its kind rendered, and no account is
\* rendered both as newly bridged and as already followed.
C20_CountsMatchRenderedRows ==
    (repPc = "done" /\ repVersion = CheckedReport) =>
        /\ Len(counts) = 3
        /\ counts[1] = counts[2] + counts[3]
        /\ counts[1] = Len(htmlRows)
        /\ counts[2] = Cardinality(NewlyBridgedRendered)
        /\ counts[3] = Cardinality(AlreadyFollowedRendered)
        /\ \A i \in NewlyBridgedRendered : \A j \in AlreadyFollowedRendered :
               AccountOf(htmlRows[i]) # AccountOf(htmlRows[j])

\* a report that renders a newly bridged account and an already-followed
\* one, from a run whose CSV also held the already-followed account
C20_Witness ==
    /\ repPc = "done"
    /\ repVersion = CheckedReport
    /\ NewlyBridgedRendered # {}
    /\ AlreadyFollowedRendered # {}
    /\ Len(repCsvLines) > 1 + Cardinality(NewlyBridgedRendered)
    /\ \E j \in AlreadyFollowedRendered : \E k \in 2..Len(repCsvLines) :
          /\ MatchThreeFields(repCsvLines[k]).matched
          /\ ToLowerCase(StripLeadingAt(MatchThreeFields(repCsvLines[k]).handle))
                = AccountOf(htmlRows[j])

(***************************************************************************)
(* Claims about reading the follow records                                 *)
(***************************************************************************)

\* the files whose record has a subject
RecordsWithSubject ==
    {k \in 1..Len(dirFiles) :
        dirFiles[k].parses /\ dirFiles[k].subject # ""}

\* C21: a follow-record file that cannot be parsed as JSON does not abort
\* the run: the reader never ends with an exception, and once it has
\* returned every other record of the directory has been processed.
C21_MalformedFileIsSkipped ==
    /\ dirPc # "thrown"
    /\ dirPc = "returned" => \A k \in RecordsWithSubject : k <= dirI

=============================================================================
